---- MODULE Spec2Model ----
(***************************************************************************)
(* Region estimation of the Document OCR / Form Parser processors:        *)
(*   _merge_adjacent_areas, _estimate_visual_regions_from_text_gaps,      *)
(*   _extract_estimated_image_areas_by_keywords and                       *)
(*   _create_estimated_image_area.                                        *)
(*                                                                         *)
(* Normalized coordinates are the floats of the source scaled by Page:    *)
(* an integer n stands for n / Page of the page side, so a grid cell is   *)
(* GridSize units wide, 1/grid_size*1.1 is 22 units, the offsets 0.15 and *)
(* 0.1 are 60 and 40 units and an area is counted in 1/Page^2 of the page *)
(* area.  Arithmetic is exact: float rounding is not modelled.            *)
(***************************************************************************)
EXTENDS Integers, Sequences, FiniteSets, TLC

\* ---------------------------------------------------------------- bounds
MaxAreas == 4        \* longest region list handed directly to the merger
MaxGapBlocks == 2    \* most blocks on a page given to the grid-gap estimator
MaxRuns == 2         \* most runs of the grid-gap estimator on one page
MaxKeywordBlocks == 2 \* most blocks on a page given to the keyword estimator
MaxPages == 2        \* most pages of a document whose figures are extracted
MaxCoords == 2       \* most blocks, and most paragraphs, with coordinates on a page

\* ------------------------------------------------------- program constants
GridSize == 20

Page == GridSize * GridSize

\* 1/grid_size * 1.1
Tolerance == (GridSize * 11) \div 10

Min2(a, b) == IF a < b THEN a ELSE b

Max2(a, b) == IF a > b THEN a ELSE b

Abs(x) == IF x < 0 THEN -x ELSE x

\* a region dict with the seven keys the merger reads and writes
MkArea(l, t, r, b) ==
    [left |-> l, top |-> t, right |-> r, bottom |-> b,
     width |-> r - l, height |-> b - t, area |-> (r - l) * (b - t)]

\* ------------------------------------------------------------ the merger
\* mutant: the comparison is <= instead of <
AdjacentLoose(cur, other) ==
    \/ Abs(cur.right - other.left) <= Tolerance
    \/ Abs(cur.left - other.right) <= Tolerance
    \/ Abs(cur.bottom - other.top) <= Tolerance
    \/ Abs(cur.top - other.bottom) <= Tolerance

\* the adjacency test of the inner loop
Adjacent(cur, other) ==
    \/ Abs(cur.right - other.left) < Tolerance
    \/ Abs(cur.left - other.right) < Tolerance
    \/ Abs(cur.bottom - other.top) < Tolerance
    \/ Abs(cur.top - other.bottom) < Tolerance

\* mutant: the box grows but width, height and area are left as they were
AbsorbStale(cur, other) ==
    [cur EXCEPT !.left = Min2(cur.left, other.left),
                !.top = Min2(cur.top, other.top),
                !.right = Max2(cur.right, other.right),
                !.bottom = Max2(cur.bottom, other.bottom)]

\* current_area after other_area was united into it
Absorb(cur, other) ==
    LET l == Min2(cur.left, other.left)
        t == Min2(cur.top, other.top)
        r == Max2(cur.right, other.right)
        b == Max2(cur.bottom, other.bottom)
    IN  [left |-> l, top |-> t, right |-> r, bottom |-> b,
         width |-> r - l, height |-> b - t, area |-> (r - l) * (b - t)]

\* mutant: current_area is the dict of the list itself, so what is written
\* to current_area is written to areas[i]
AreasAfterWritesNoCopy(as, k, cur) == [as EXCEPT ![k] = cur]

\* "current_area = area.copy()": the list after the writes of a scan to
\* current_area, which is a dict of its own, seeded from areas[k]
AreasAfterWrites(as, k, cur) == as

\* mutant: a region is absorbed without "changed = True"
ScanStepUnflagged(as, j, st) ==
    IF j \in st.used THEN st
    ELSE IF Adjacent(st.cur, as[j])
         THEN [cur |-> Absorb(st.cur, as[j]),
               used |-> st.used \cup {j},
               changed |-> st.changed]
         ELSE st

\* mutant: a region is absorbed without "used.add(j)"
ScanStepUnmarked(as, j, st) ==
    IF j \in st.used THEN st
    ELSE IF Adjacent(st.cur, as[j])
         THEN [cur |-> Absorb(st.cur, as[j]),
               used |-> st.used,
               changed |-> TRUE]
         ELSE st

\* the body of "for j, other_area in enumerate(areas)" for one j;
\* st is [cur, used, changed]
ScanStep(as, j, st) ==
    IF j \in st.used THEN st
    ELSE IF Adjacent(st.cur, as[j])
         THEN [cur |-> Absorb(st.cur, as[j]),
               used |-> st.used \cup {j},
               changed |-> TRUE]
         ELSE st

\* the for-j loop over the indices lo..hi in increasing order.  The range is
\* halved, and the state after the first half is looked at before the
\* second half is entered, so that the evaluation stays shallow on the 400
\* cells of a page: once every index is used all later turns "continue"
RECURSIVE ScanPass(_, _, _, _)
ScanPass(as, lo, hi, st) ==
    IF lo > hi THEN st
    ELSE IF lo = hi THEN ScanStep(as, lo, st)
    ELSE LET mid == (lo + hi) \div 2
             half == ScanPass(as, lo, mid, st)
         IN  IF Cardinality(half.used) = Len(as)
             THEN half
             ELSE ScanPass(as, mid + 1, hi, half)

\* mutant: the outer loop never skips a used index
SeedSkippedNever(k, usedSet) == FALSE

\* "if i in used: continue"
SeedSkipped(k, usedSet) == k \in usedSet

\* the indices the outer loop can still start a group from, at or after k
SeedsFrom(as, k, usedSet) ==
    {m \in k..Len(as) : ~SeedSkipped(m, usedSet)}

SetMin(S) == CHOOSE m \in S : \A o \in S : m <= o

\* ------------------------------------------------- the grid-gap estimator
\* 0.002 and 0.8 of the page area
MinArea == (2 * Page * Page) \div 1000

MaxArea == (8 * Page * Page) \div 10

\* a layout block of the provider: its normalized_vertices and the
\* text_segments of its text_anchor (the attributes the hasattr tests ask
\* for exist on every block of the provider's message type)
MkBlock(vs, segs) == [vertices |-> vs, segments |-> segs]

Quad(l, t, r, b) ==
    <<[x |-> l, y |-> t], [x |-> r, y |-> t], [x |-> r, y |-> b], [x |-> l, y |-> b]>>

\* mutant: right and bottom are read from vertex 1 instead of vertex 2
TextRegionOfWrongVertex(block) ==
    [left |-> block.vertices[1].x, top |-> block.vertices[1].y,
     right |-> block.vertices[2].x, bottom |-> block.vertices[2].y]

\* the dict recorded for a block: vertices[0] and vertices[2]
TextRegionOf(block) ==
    [left |-> block.vertices[1].x, top |-> block.vertices[1].y,
     right |-> block.vertices[3].x, bottom |-> block.vertices[3].y]

\* "for block in page.blocks": the blocks with at least 4 vertices
RECURSIVE CollectTextRegions(_)
CollectTextRegions(blocks) ==
    IF blocks = <<>> THEN <<>>
    ELSE LET block == Head(blocks)
             rest == CollectTextRegions(Tail(blocks))
         IN  IF Len(block.vertices) >= 4
             THEN <<TextRegionOf(block)>> \o rest
             ELSE rest

\* mutant: fewer than 1
TooFewRegionsOnlyNone(regions) == Len(regions) < 1

\* "if len(text_regions) < 2"
TooFewRegions(regions) == Len(regions) < 2

\* mutant: touching counts as overlapping
OverlapsOrTouches(cell, region) ==
    /\ cell.right >= region.left
    /\ cell.left <= region.right
    /\ cell.bottom >= region.top
    /\ cell.top <= region.bottom

\* the overlap test of a grid cell against one text region
Overlaps(cell, region) ==
    /\ cell.right > region.left
    /\ cell.left < region.right
    /\ cell.bottom > region.top
    /\ cell.top < region.bottom

\* "for text_region in text_regions: ... break"
OverlapsText(cell, regions) ==
    \E k \in 1..Len(regions) : Overlaps(cell, regions[k])

\* the grid cell dict of (row, col)
Cell(row, col) ==
    MkArea(col * GridSize, row * GridSize,
           (col + 1) * GridSize, (row + 1) * GridSize)

\* mutant: the grid is walked column by column
GridCellColumnMajor(outer, inner) == Cell(inner, outer)

\* the cell reached by "for row in range(grid_size): for col in
\* range(grid_size)" in turn outer of the outer loop and inner of the inner
GridCell(outer, inner) == Cell(outer, inner)

\* the inner loop from turn inner on: the cells appended in this row
RECURSIVE CandidatesInRow(_, _, _)
CandidatesInRow(regions, outer, inner) ==
    IF inner >= GridSize THEN <<>>
    ELSE IF OverlapsText(GridCell(outer, inner), regions)
         THEN CandidatesInRow(regions, outer, inner + 1)
         ELSE <<GridCell(outer, inner)>> \o CandidatesInRow(regions, outer, inner + 1)

\* the outer loop from turn outer on: potential_image_areas
RECURSIVE CandidateCells(_, _)
CandidateCells(regions, outer) ==
    IF outer >= GridSize THEN <<>>
    ELSE CandidatesInRow(regions, outer, 0) \o CandidateCells(regions, outer + 1)

\* mutant: the upper end of the interval is open
SignificantAreaBelowMax(a) == MinArea <= a.area /\ a.area < MaxArea

\* "0.002 <= area["area"] <= 0.8"
SignificantArea(a) == MinArea <= a.area /\ a.area <= MaxArea

\* the estimated_figure dict of the n-th significant area
EstimatedFigure(pnum, n, a) ==
    [page |-> pnum, element_id |-> <<"estimated", n>>,
     type |-> "estimated_figure", source |-> "text_gap_analysis",
     coordinates |-> Quad(a.left, a.top, a.right, a.bottom),
     bounding_box |-> [left |-> a.left, top |-> a.top, right |-> a.right,
                       bottom |-> a.bottom, width |-> a.width,
                       height |-> a.height]]

EstimatedFigures(pnum, significant) ==
    [n \in 1..Len(significant) |-> EstimatedFigure(pnum, n, significant[n])]

\* ------------------------------------------------ the keyword estimator
\* self.chair_keywords; a string is the sequence of its characters, each
\* kana written by a name
chair_keywords ==
    << <<"e", "ltu", "gu", "chi", "le", "a">>,
       <<"a", "n", "to", "chi", "le", "a">>,
       <<"su", "wa", "n", "chi", "le", "a">>,
       <<"se", "bu", "n", "chi", "le", "a">>,
       <<"be", "ru", "bi", "lyu", "-", ".", "chi", "le", "a">>,
       <<"a", "ri", "n", "ko", "chi", "le", "a">> >>

\* self.area_offset: 0.1, 0.1, 0.15, 0.15 of the page
area_offset ==
    [top |-> Page \div 10, bottom |-> Page \div 10,
     left |-> (15 * Page) \div 100, right |-> (15 * Page) \div 100]

\* text[start:end] of Python for integer bounds (0-based, end excluded):
\* a negative bound counts from the end, and both are cut to the text
PySlice(text, start, end) ==
    LET n == Len(text)
        from == IF start < 0 THEN Max2(start + n, 0) ELSE Min2(start, n)
        to == IF end < 0 THEN Max2(end + n, 0) ELSE Min2(end, n)
    IN  SubSeq(text, from + 1, to)

\* "for segment in ...text_segments: block_text += full_text[start:end]"
RECURSIVE SegmentsText(_, _)
SegmentsText(segments, text) ==
    IF segments = <<>> THEN <<>>
    ELSE PySlice(text, Head(segments).start_index, Head(segments).end_index)
             \o SegmentsText(Tail(segments), text)

\* the characters str.strip() removes
Whitespace == {" ", "nl"}

RECURSIVE StripLeft(_)
StripLeft(text) ==
    IF text # <<>> /\ Head(text) \in Whitespace
    THEN StripLeft(Tail(text))
    ELSE text

RECURSIVE StripRight(_)
StripRight(text) ==
    IF text # <<>> /\ text[Len(text)] \in Whitespace
    THEN StripRight(SubSeq(text, 1, Len(text) - 1))
    ELSE text

\* block_text.strip()
Strip(text) == StripRight(StripLeft(text))

\* "keyword in block_text"
KeywordIn(keyword, text) ==
    \E at \in 1..(Len(text) - Len(keyword) + 1) :
        SubSeq(text, at, at + Len(keyword) - 1) = keyword

\* block_coords of the block at block_idx (1-based)
BlockCoords(block, block_idx, keyword, text) ==
    [block_idx |-> block_idx,
     text |-> Strip(SegmentsText(block.segments, text)),
     keyword |-> keyword,
     left |-> block.vertices[1].x, top |-> block.vertices[1].y,
     right |-> block.vertices[3].x, bottom |-> block.vertices[3].y]

\* the block matches the keyword and has the vertices to be recorded
BlockMatches(block, keyword, text) ==
    /\ KeywordIn(keyword, SegmentsText(block.segments, text))
    /\ Len(block.vertices) >= 4

\* mutant: the search of a keyword stops at the first matching block
RECURSIVE MatchingBlocksFirstOnly(_, _, _, _)
MatchingBlocksFirstOnly(blocks, block_idx, keyword, text) ==
    IF block_idx > Len(blocks) THEN <<>>
    ELSE IF BlockMatches(blocks[block_idx], keyword, text)
         THEN <<BlockCoords(blocks[block_idx], block_idx, keyword, text)>>
         ELSE MatchingBlocksFirstOnly(blocks, block_idx + 1, keyword, text)

\* "for block_idx, block in enumerate(page.blocks)" from block_idx on:
\* matching_blocks
RECURSIVE MatchingBlocks(_, _, _, _)
MatchingBlocks(blocks, block_idx, keyword, text) ==
    IF block_idx > Len(blocks) THEN <<>>
    ELSE IF BlockMatches(blocks[block_idx], keyword, text)
         THEN <<BlockCoords(blocks[block_idx], block_idx, keyword, text)>>
                  \o MatchingBlocks(blocks, block_idx + 1, keyword, text)
         ELSE MatchingBlocks(blocks, block_idx + 1, keyword, text)

\* (a + b) / 2; the coordinates of the model are even, so the half is exact
Midpoint(a, b) == (a + b) \div 2

\* mutant: the estimated box is not cut to the page
EstimatedBoxUnclamped(text_block) ==
    LET cx == Midpoint(text_block.left, text_block.right)
        cy == Midpoint(text_block.top, text_block.bottom)
    IN  [left |-> cx - area_offset.left, top |-> cy - area_offset.top,
         right |-> cx + area_offset.right, bottom |-> cy + area_offset.bottom]

\* estimated_left, estimated_top, estimated_right, estimated_bottom
EstimatedBox(text_block) ==
    LET cx == Midpoint(text_block.left, text_block.right)
        cy == Midpoint(text_block.top, text_block.bottom)
    IN  [left |-> Max2(0, cx - area_offset.left),
         top |-> Max2(0, cy - area_offset.top),
         right |-> Min2(Page, cx + area_offset.right),
         bottom |-> Min2(Page, cy + area_offset.bottom)]

\* _create_estimated_image_area (the definition that is in force, the
\* second of the class)
CreateEstimatedImageArea(text_block, keyword, instance_num) ==
    LET e == EstimatedBox(text_block)
    IN  [page |-> 1,
         element_id |-> <<"keyword", keyword, instance_num>>,
         type |-> "estimated_figure",
         source |-> "keyword_search",
         estimated_type |-> <<keyword, "_area">>,
         text_reference |-> [block_idx |-> text_block.block_idx,
                             keyword |-> keyword,
                             text_content |-> text_block.text],
         coordinates |-> Quad(e.left, e.top, e.right, e.bottom),
         bounding_box |-> [left |-> e.left, top |-> e.top,
                           right |-> e.right, bottom |-> e.bottom,
                           width |-> e.right - e.left,
                           height |-> e.bottom - e.top]]

\* "for i, match in enumerate(matching_blocks)": the areas of one keyword
KeywordAreas(blocks, keyword, text) ==
    LET matching_blocks == MatchingBlocks(blocks, 1, keyword, text)
    IN  [n \in 1..Len(matching_blocks) |->
            CreateEstimatedImageArea(matching_blocks[n], keyword, n)]

\* "for keyword in self.chair_keywords" from the n-th keyword on: all the
\* areas appended, in order
RECURSIVE AllKeywordAreas(_, _, _)
AllKeywordAreas(blocks, n, text) ==
    IF n > Len(chair_keywords) THEN <<>>
    ELSE KeywordAreas(blocks, chair_keywords[n], text)
             \o AllKeywordAreas(blocks, n + 1, text)

\* ------------------------------------------------ the coordinate resolvers
\* the None of Python and an empty dict
None == [none |-> TRUE]

EmptyDict == <<>>

\* int(segment.start_index) or int(segment.end_index) raises: the provider
\* sent a value that is no number.  Such a segment carries wrong_type
IndexRaises(segment) == "wrong_type" \in DOMAIN segment

SegmentsRaise(segments) ==
    \E k \in 1..Len(segments) : IndexRaises(segments[k])

\* float(vertex.x) or float(vertex.y) raises, likewise
VertexRaises(vertex) == "wrong_type" \in DOMAIN vertex

VerticesRaise(vertices) ==
    \E k \in 1..Len(vertices) : VertexRaises(vertices[k])

\* "for vertex in bounding_poly.normalized_vertices: coordinates.append(...)"
Coordinates(vertices) ==
    [k \in 1..Len(vertices) |-> [x |-> vertices[k].x, y |-> vertices[k].y]]

\* mutant: right and bottom are read from coordinates[1]
BoundingBoxOfSecondPoint(coordinates) ==
    [left |-> coordinates[1].x, top |-> coordinates[1].y,
     right |-> coordinates[2].x, bottom |-> coordinates[2].y,
     width |-> coordinates[2].x - coordinates[1].x,
     height |-> coordinates[2].y - coordinates[1].y]

\* the bounding_box dict: coordinates[0] and coordinates[2] of Python
BoundingBox(coordinates) ==
    [left |-> coordinates[1].x, top |-> coordinates[1].y,
     right |-> coordinates[3].x, bottom |-> coordinates[3].y,
     width |-> coordinates[3].x - coordinates[1].x,
     height |-> coordinates[3].y - coordinates[1].y]

\* "if len(coordinates) >= 4": the two keys that are then set
CoordinatesKey(vertices) ==
    IF Len(vertices) >= 4 THEN Coordinates(vertices) ELSE <<>>

BoundingBoxKey(vertices) ==
    IF Len(vertices) >= 4 THEN BoundingBox(Coordinates(vertices)) ELSE EmptyDict

\* _extract_text_block_with_coordinates: one try block around the text and
\* the box, None from the except clause, None for a text that strips to ""
ExtractTextBlockWithCoordinates(block, text, pnum, block_num) ==
    IF SegmentsRaise(block.segments) \/ VerticesRaise(block.vertices)
    THEN None
    ELSE LET block_data ==
                 [page |-> pnum, block_id |-> block_num,
                  text |-> SegmentsText(block.segments, text),
                  coordinates |-> CoordinatesKey(block.vertices),
                  bounding_box |-> BoundingBoxKey(block.vertices)]
         IN  IF Strip(block_data.text) # <<>> THEN block_data ELSE None

\* _extract_text_element_with_coordinates of the Form Parser processor
ExtractTextElementWithCoordinates(element, text, pnum, elem_num, elem_type) ==
    IF SegmentsRaise(element.segments) \/ VerticesRaise(element.vertices)
    THEN None
    ELSE LET elem_data ==
                 [page |-> pnum, element_id |-> elem_num,
                  element_type |-> elem_type,
                  text |-> SegmentsText(element.segments, text),
                  coordinates |-> CoordinatesKey(element.vertices),
                  bounding_box |-> BoundingBoxKey(element.vertices)]
         IN  IF Strip(elem_data.text) # <<>> THEN elem_data ELSE None

\* str(element.type).lower() on the type names of the model
Lower(type) ==
    CASE type = "FIGURE" -> "figure"
      [] type = "Table" -> "table"
      [] OTHER -> type

\* _extract_visual_element_with_coordinates: None when no coordinates were
\* set, and None from the except clause
ExtractVisualElementWithCoordinates(element, pnum, elem_num) ==
    IF VerticesRaise(element.vertices)
    THEN None
    ELSE LET elem_data ==
                 [page |-> pnum, element_id |-> <<"element", elem_num>>,
                  type |-> Lower(element.type),
                  coordinates |-> CoordinatesKey(element.vertices),
                  bounding_box |-> BoundingBoxKey(element.vertices)]
         IN  IF elem_data.coordinates # <<>> THEN elem_data ELSE None

\* ------------------------------------- the resolvers of the Layout Parsers
\* str.replace("\\n", ""): every backslash followed by n is taken out (the
\* pattern is the two characters, not a line end)
RECURSIVE RemoveBackslashN(_)
RemoveBackslashN(text) ==
    IF Len(text) < 2 THEN text
    ELSE IF text[1] = "\\" /\ text[2] = "n"
         THEN RemoveBackslashN(SubSeq(text, 3, Len(text)))
         ELSE <<text[1]>> \o RemoveBackslashN(Tail(text))

\* _extract_coordinates_from_layout of layout_parser_v1: x and y are copied
\* as they are
ExtractCoordinatesFromLayout(vertices) ==
    IF Len(vertices) >= 4 THEN vertices ELSE <<>>

\* the text _extract_element_data reads: text_segments[0] only
ElementDataText(element, text) ==
    IF element.segments # <<>> /\ text # <<>>
    THEN RemoveBackslashN(PySlice(text, element.segments[1].start_index,
                                  element.segments[1].end_index))
    ELSE <<>>

\* _extract_element_data of layout_parser_v1 has no try block: the TypeError
\* of a slice bound that is no number leaves the routine
ExtractElementDataRaises(element, text) ==
    element.segments # <<>> /\ text # <<>> /\ IndexRaises(element.segments[1])

\* what _extract_element_data returns when it returns
ExtractElementData(element, text) ==
    IF ExtractElementDataRaises(element, text) THEN None
    ELSE LET coords == ExtractCoordinatesFromLayout(element.vertices)
             element_data ==
                 [text |-> ElementDataText(element, text),
                  text_length |-> Len(ElementDataText(element, text)),
                  coordinates |-> coords,
                  coordinates_found |-> Len(coords)]
         IN  IF element_data.text # <<>> \/ element_data.coordinates_found > 0
             THEN element_data
             ELSE None

\* _extract_text_from_layout of layout_parser_only: text_segments[0] only,
\* "" from the bare except clause
ExtractTextFromLayout(element, text) ==
    IF element.segments = <<>> THEN <<>>
    ELSE IF IndexRaises(element.segments[1]) THEN <<>>
    ELSE PySlice(text, element.segments[1].start_index,
                 element.segments[1].end_index)

\* layout_to_text of layout_parser_simple has no try block: the error of
\* int() on a value that is no number leaves the routine
LayoutToTextRaises(element) == SegmentsRaise(element.segments)

\* what layout_to_text returns when it returns: the join over all segments
LayoutToText(element, text) ==
    IF element.segments = <<>> \/ LayoutToTextRaises(element) THEN <<>>
    ELSE SegmentsText(element.segments, text)

\* ------------------------------------------------------------ the croppers
\* the dict _save_page_image returns for a page whose image decodes to a
\* raster of raster.width x raster.height pixels
SavePageImage(pnum, raster) ==
    [page |-> pnum, filename |-> [page_ |-> pnum],
     width |-> raster.width, height |-> raster.height]

\* mutant: round() instead of int()
PyIntRound(n, d) == (2 * n + d) \div (2 * d)

\* int(n / d) of Python for d > 0: the fraction is cut off toward zero
PyInt(n, d) == IF n >= 0 THEN n \div d ELSE -((-n) \div d)

\* left, top, right, bottom in pixels of a box on a raster of w x h pixels
PixelBox(l, t, r, b, w, h) ==
    [left |-> PyInt(l * w, Page), top |-> PyInt(t * h, Page),
     right |-> PyInt(r * w, Page), bottom |-> PyInt(b * h, Page)]

\* the filename _crop_figure_from_page builds
CropFilename(figure) ==
    IF "source" \in DOMAIN figure /\ figure.source = "keyword_search"
    THEN [estimated_ |-> figure.estimated_type, _page |-> figure.page]
    ELSE [figure_page |-> figure.page, _elem |-> figure.element_id]

\* the dict _crop_figure_from_page returns after the crop and the save
CroppedInfo(figure, page_image) ==
    LET bbox == figure.bounding_box
        px == PixelBox(bbox.left, bbox.top, bbox.right, bbox.bottom,
                       page_image.width, page_image.height)
    IN  [page |-> figure.page,
         element_id |-> figure.element_id,
         filename |-> CropFilename(figure),
         original_coordinates |-> figure.coordinates,
         pixel_coordinates |-> px,
         width |-> px.right - px.left,
         height |-> px.bottom - px.top]

\* a pixel box with no pixels in it.  Image.crop and Image.save are not
\* code of the repository: on such a box they raise in some releases of
\* the imaging library and hand back an image of size 0 in others
NoPixels(px) == px.right <= px.left \/ px.bottom <= px.top

\* mutant: the box is tested as _extract_figure_image tests it
CropFigureFromPageChecked(figure, page_image) ==
    IF "left" \notin DOMAIN figure.bounding_box
    THEN {None}
    ELSE LET info == CroppedInfo(figure, page_image)
             px == info.pixel_coordinates
         IN  IF px.left >= px.right \/ px.top >= px.bottom
                    \/ px.left < 0 \/ px.top < 0
             THEN {None}
             ELSE {info}

\* _crop_figure_from_page: everything it can return for the figure.  A
\* bounding_box without keys raises KeyError, and the except clause
\* returns None; the box is not tested before the crop
CropFigureFromPage(figure, page_image) ==
    IF "left" \notin DOMAIN figure.bounding_box
    THEN {None}
    ELSE LET info == CroppedInfo(figure, page_image)
         IN  IF NoPixels(info.pixel_coordinates)
             THEN {None, info}
             ELSE {info}

\* _extract_figure_image of layout_parser_v1: page_image is None for a
\* page without image content
ExtractFigureImage(page_image, element_data, pnum, element_num) ==
    IF page_image = None THEN None
    ELSE IF element_data.coordinates_found < 4 THEN None
    ELSE IF VerticesRaise(element_data.coordinates) THEN None
    ELSE LET coords == element_data.coordinates
             px == PixelBox(coords[1].x, coords[1].y, coords[3].x, coords[3].y,
                            page_image.width, page_image.height)
         IN  IF px.left >= px.right \/ px.top >= px.bottom
                    \/ px.left < 0 \/ px.top < 0
             THEN None
             ELSE [figure_id |-> element_num,
                   page |-> pnum,
                   type |-> element_data.type,
                   coordinates |-> px,
                   size |-> [width |-> px.right - px.left,
                             height |-> px.bottom - px.top],
                   saved_path |-> [figure_page |-> pnum, _elem |-> element_num]]

\* ------------------------- the cropper of the blocks and the paragraphs
\* "coords = [(v.x, v.y) for v in vertices]" of
\* investigate_pages_blocks_coordinates
CoordPairs(vertices) ==
    [k \in 1..Len(vertices) |-> <<vertices[k].x, vertices[k].y>>]

\* blocks_with_coordinates of a page finding: one block_coord_info per
\* polygon, for blocks without text anchor
BlocksWithCoordinates(polygons) ==
    [k \in 1..Len(polygons) |->
        [block_index |-> k, coordinates |-> CoordPairs(polygons[k]),
         text |-> <<>>, source |-> "pages.blocks.layout.bounding_poly"]]

\* paragraphs_with_coordinates of a page finding
ParagraphsWithCoordinates(polygons) ==
    [k \in 1..Len(polygons) |->
        [paragraph_index |-> k, coordinates |-> CoordPairs(polygons[k]),
         text |-> <<>>, source |-> "pages.paragraphs.layout.bounding_poly"]]

\* left, top, right, bottom: int() of points 0 and 2 times the image size
PixelsOfCoords(coords, page_image) ==
    PixelBox(coords[1][1], coords[1][2], coords[3][1], coords[3][2],
             page_image.width, page_image.height)

\* "if left >= right or top >= bottom or left < 0 or top < 0: continue"
InvalidCoordinates(px) ==
    px.left >= px.right \/ px.top >= px.bottom \/ px.left < 0 \/ px.top < 0

\* figure_info of a block or of a paragraph
FigureInfo(index, coord, px, saved_path) ==
    [figure_id |-> index,
     coordinates |-> px,
     size |-> [width |-> px.right - px.left, height |-> px.bottom - px.top],
     text |-> coord.text,
     source |-> coord.source,
     saved_path |-> saved_path]

\* "for block_coord in blocks_coords" from turn k on: what is appended
RECURSIVE BlockFigures(_, _, _, _)
BlockFigures(blocks_coords, page_image, pnum, k) ==
    IF k > Len(blocks_coords) THEN <<>>
    ELSE LET px == PixelsOfCoords(blocks_coords[k].coordinates, page_image)
         IN  (IF InvalidCoordinates(px) THEN <<>>
              ELSE <<FigureInfo(blocks_coords[k].block_index, blocks_coords[k], px,
                                [block_page |-> pnum,
                                 _index |-> blocks_coords[k].block_index])>>)
                 \o BlockFigures(blocks_coords, page_image, pnum, k + 1)

\* the local figures_dir is assigned in the try block of the blocks loop,
\* after the crop: it is bound once a block with valid coordinates had its
\* turn
FiguresDirBound(blocks_coords, page_image) ==
    \E k \in 1..Len(blocks_coords) :
        ~InvalidCoordinates(PixelsOfCoords(blocks_coords[k].coordinates, page_image))

\* "for para_coord in paras_coords" from turn k on: what is appended.
\* os.path.join(figures_dir, ...) raises NameError while figures_dir is not
\* bound, and the except clause of the turn prints it
RECURSIVE ParagraphFigures(_, _, _, _, _)
ParagraphFigures(paras_coords, page_image, pnum, k, bound) ==
    IF k > Len(paras_coords) THEN <<>>
    ELSE LET px == PixelsOfCoords(paras_coords[k].coordinates, page_image)
         IN  (IF InvalidCoordinates(px) \/ ~bound THEN <<>>
              ELSE <<FigureInfo(paras_coords[k].paragraph_index, paras_coords[k], px,
                                [paragraph_page |-> pnum,
                                 _index |-> paras_coords[k].paragraph_index])>>)
                 \o ParagraphFigures(paras_coords, page_image, pnum, k + 1, bound)

\* extract_from_pages_blocks: nothing without page image, else the crops of
\* the blocks and then those of the paragraphs
ExtractFromPagesBlocks(page_image, blocks_coords, paras_coords, pnum) ==
    IF page_image = None THEN <<>>
    ELSE BlockFigures(blocks_coords, page_image, pnum, 1)
             \o ParagraphFigures(paras_coords, page_image, pnum, 1,
                                 FiguresDirBound(blocks_coords, page_image))

\* ---------------------------------------------- the page loop, as a whole
\* the while loop of the merger for one seed: the scan is run again as long
\* as the last scan absorbed a region; st is [cur, used, changed]
RECURSIVE WhileChanged(_, _)
WhileChanged(as, st) ==
    IF ~st.changed THEN st
    ELSE WhileChanged(as, ScanPass(as, 1, Len(as),
                                   [cur |-> st.cur, used |-> st.used,
                                    changed |-> FALSE]))

\* the outer loop of the merger from index k on; out is merged so far
RECURSIVE MergeFrom(_, _, _, _)
MergeFrom(as, k, usedSet, out) ==
    IF SeedsFrom(as, k, usedSet) = {} THEN out
    ELSE LET seed == SetMin(SeedsFrom(as, k, usedSet))
             st == WhileChanged(as, [cur |-> as[seed],
                                     used |-> usedSet \cup {seed},
                                     changed |-> TRUE])
         IN  MergeFrom(as, seed + 1, st.used, Append(out, st.cur))

\* _merge_adjacent_areas, from call to return
MergeAdjacentAreas(as) == MergeFrom(as, 1, {}, <<>>)

\* what _estimate_visual_regions_from_text_gaps appends for a page
EstimateVisualRegionsFromTextGaps(blocks, pnum) ==
    LET regions == CollectTextRegions(blocks)
    IN  IF blocks = <<>> \/ TooFewRegions(regions) THEN <<>>
        ELSE EstimatedFigures(pnum,
                 SelectSeq(MergeAdjacentAreas(CandidateCells(regions, 0)),
                           SignificantArea))

\* 0.001 of the page area
MinImageArea == (Page * Page) \div 1000

\* _investigate_image_blocks_in_text_blocks: a block without text segments
\* whose polygon has at least 4 points and whose box has width * height >
\* 0.001 is a candidate
IsImageBlock(block) ==
    /\ block.segments = <<>>
    /\ Len(block.vertices) >= 4
    /\ BoundingBox(Coordinates(block.vertices)).width
           * BoundingBox(Coordinates(block.vertices)).height > MinImageArea

\* image_block_data of the block at block_idx (1-based)
ImageBlockData(block, pnum, block_idx) ==
    [page |-> pnum, element_id |-> <<"block", block_idx>>,
     type |-> "potential_image", source |-> "text_blocks_analysis",
     coordinates |-> Coordinates(block.vertices),
     bounding_box |-> BoundingBox(Coordinates(block.vertices))]

\* "for block_idx, block in enumerate(page.blocks)" from block_idx on: what
\* is appended, up to the first block whose vertex is no number (float()
\* raises there and the except clause ends the routine)
RECURSIVE PotentialImages(_, _, _)
PotentialImages(blocks, pnum, block_idx) ==
    IF block_idx > Len(blocks) THEN <<>>
    ELSE IF blocks[block_idx].segments = <<>> /\ VerticesRaise(blocks[block_idx].vertices)
         THEN <<>>
         ELSE (IF IsImageBlock(blocks[block_idx])
               THEN <<ImageBlockData(blocks[block_idx], pnum, block_idx)>>
               ELSE <<>>) \o PotentialImages(blocks, pnum, block_idx + 1)

\* the routine ended in its except clause, before "total_figures +=
\* image_blocks_found"
InvestigateRaises(blocks) ==
    \E k \in 1..Len(blocks) :
        blocks[k].segments = <<>> /\ VerticesRaise(blocks[k].vertices)

\* "for block_idx, block in enumerate(page.blocks)": the block_data appended
\* to results["text_blocks"]
RECURSIVE ResolvedTextBlocks(_, _, _, _)
ResolvedTextBlocks(blocks, text, pnum, block_idx) ==
    IF block_idx > Len(blocks) THEN <<>>
    ELSE LET block_data == ExtractTextBlockWithCoordinates(
                               blocks[block_idx], text, pnum, block_idx)
         IN  (IF block_data # None THEN <<block_data>> ELSE <<>>)
                 \o ResolvedTextBlocks(blocks, text, pnum, block_idx + 1)

\* "for elem_idx, element in enumerate(visual_elements)": the elem_data
\* appended to results["visual_elements"]
RECURSIVE ResolvedVisualElements(_, _, _)
ResolvedVisualElements(elements, pnum, elem_idx) ==
    IF elem_idx > Len(elements) THEN <<>>
    ELSE LET elem_data == ExtractVisualElementWithCoordinates(
                              elements[elem_idx], pnum, elem_idx)
         IN  (IF elem_data # None THEN <<elem_data>> ELSE <<>>)
                 \o ResolvedVisualElements(elements, pnum, elem_idx + 1)

\* the three fallbacks of a page whose visual_elements are empty, in the
\* order of the calls
FallbackElements(blocks, text, pnum) ==
    PotentialImages(blocks, pnum, 1)
        \o EstimateVisualRegionsFromTextGaps(blocks, pnum)
        \o AllKeywordAreas(blocks, 1, text)

\* what the page adds to results["summary"]["total_figures"]
FiguresCounted(pg, text, pnum) ==
    IF pg.visual_elements # <<>>
    THEN Len(SelectSeq(ResolvedVisualElements(pg.visual_elements, pnum, 1),
                       LAMBDA e : e.type = "figure"))
    ELSE (IF InvestigateRaises(pg.blocks) THEN 0
          ELSE Len(PotentialImages(pg.blocks, pnum, 1)))
         + Len(EstimateVisualRegionsFromTextGaps(pg.blocks, pnum))
         + Len(AllKeywordAreas(pg.blocks, 1, text))

\* "next((img for img in results["page_images"] if img["page"] ==
\* page_num), None)"
RECURSIVE PageImageOf(_, _)
PageImageOf(images, pnum) ==
    IF images = <<>> THEN None
    ELSE IF Head(images).page = pnum THEN Head(images)
    ELSE PageImageOf(Tail(images), pnum)

\* mutant: "potential_image" is missing from the list of types
IsFigureElementDetectedOnly(elem) == elem.type \in {"figure", "estimated_figure"}

\* elem["type"] in ["figure", "estimated_figure", "potential_image"]
IsFigureElement(elem) ==
    elem.type \in {"figure", "estimated_figure", "potential_image"}

\* ------------------------------------------------------------------ state
VARIABLES
    pc,                     \* position: page_1, idle, for_i, while, filter, done
    caller,                 \* who called the merger / which routine ran
    areas,                  \* areas         (parameter of the merger)
    merged,                 \* merged        (local list of the merger)
    used,                   \* used          (local set of the merger)
    i,                      \* i             (outer loop index, 1-based)
    current_area,           \* current_area  (the running union)
    changed,                \* changed       (flag of the inner while loop)
    members,                \* indices absorbed into current_area so far
    groups,                 \* per emitted region, the indices absorbed in it
    passes,                 \* runs of the while body for the current seed
    page,                   \* page.blocks of the page being processed
    page_num,               \* page_num of the page being processed
    full_text,              \* document.text
    text_regions,           \* text_regions  (local list of the estimator)
    visual_elements,        \* results["visual_elements"]
    total_figures,          \* results["summary"]["total_figures"]
    base,                   \* len(results["visual_elements"]) at the call
    run,                    \* runs of the estimator on this page so far
    first_out,              \* what the previous run appended
    call,                   \* the last call of a routine: arguments and outcome
    text_blocks,            \* results["text_blocks"]
    page_images,            \* results["page_images"]
    extracted_figures,      \* results["extracted_figures"]
    figure_elements,        \* figure_elements (local list of the extraction)
    figure_at,              \* position of the for-figure loop (1-based)
    extracted_count,        \* extracted_count
    attempts,               \* per turn of the for-figure loop, what happened
    page_elements           \* page.visual_elements of the page being processed

mergeVars == <<areas, merged, used, i, current_area, changed, members,
               groups, passes>>

pageVars == <<page, page_num, full_text, text_regions>>

resultVars == <<visual_elements, total_figures>>

runVars == <<base, run, first_out>>

extractVars == <<call, text_blocks, page_images, extracted_figures,
                 figure_elements, figure_at, extracted_count, attempts,
                 page_elements>>

vars == <<pc, caller, mergeVars, pageVars, resultVars, runVars, extractVars>>

NoArea == MkArea(0, 0, 0, 0)

\* ----------------------------------------------- inputs of a direct call
\* regions a caller may hand to the merger: the 2x2 block of grid cells at
\* the origin, a cell diagonally far from it, a box whose gaps to cell
\* (0,1) are exactly the tolerance, and a box that contains cell (5,5)
\* with no edge near it
AreaPool ==
    {Cell(0, 0), Cell(0, 1), Cell(1, 0), Cell(1, 1), Cell(5, 5),
     MkArea(2 * GridSize + Tolerance, GridSize + Tolerance, 80, 60),
     MkArea(50, 50, 200, 200)}

RECURSIVE SeqsUpTo(_, _)
SeqsUpTo(S, n) ==
    IF n = 0 THEN {<<>>}
    ELSE LET shorter == SeqsUpTo(S, n - 1)
         IN  shorter \cup {Append(q, x) : q \in {p \in shorter : Len(p) = n - 1}, x \in S}

AreaLists == SeqsUpTo(AreaPool, MaxAreas)

\* the blocks a page given to the grid-gap estimator may carry: full-width
\* bands (row 0; rows 0-1; rows 0-4; rows 1-17; rows 18-19), a box over
\* rows 0-17 without column 0, a box over rows 1-19 that ends inside column
\* 17, and a block with only three vertices
GapBlockPool ==
    {MkBlock(Quad(0, 0, Page, GridSize), <<>>),
     MkBlock(Quad(0, 0, Page, 2 * GridSize), <<>>),
     MkBlock(Quad(0, 0, Page, 5 * GridSize), <<>>),
     MkBlock(Quad(0, GridSize, Page, 18 * GridSize), <<>>),
     MkBlock(Quad(0, 18 * GridSize, Page, Page), <<>>),
     MkBlock(Quad(GridSize, 0, Page, 18 * GridSize), <<>>),
     MkBlock(Quad(0, GridSize, 18 * GridSize - 10, Page), <<>>),
     MkBlock(SubSeq(Quad(0, 0, Page, Page), 1, 3), <<>>)}

GapPages == SeqsUpTo(GapBlockPool, MaxGapBlocks)

\* document.text: two chair names, a line end, and the first name again
\* with a blank inside it
DocumentText ==
    chair_keywords[1] \o <<"to">> \o chair_keywords[2] \o <<"nl">>
        \o <<"e", "ltu", "gu", " ", "chi", "le", "a">>

Segment(start, end) == [start_index |-> start, end_index |-> end]

\* text_segments a block may carry: none; the first name; both names and
\* the line end; the name with the blank; the same without the blank, in
\* two segments; the second name with an end_index past the text
SegmentPool ==
    {<<>>,
     <<Segment(0, 6)>>,
     <<Segment(0, 14)>>,
     <<Segment(14, 21)>>,
     <<Segment(14, 17), Segment(18, 21)>>,
     <<Segment(7, 99)>>}

\* normalized_vertices a block may carry: a box with center (0.5, 0.5), a
\* box in the top-left corner, a box the provider placed right of the
\* page, and three vertices only
VerticesPool ==
    {Quad(160, 180, 240, 220),
     Quad(0, 0, 40, 40),
     Quad(560, 0, 640, 40),
     SubSeq(Quad(160, 180, 240, 220), 1, 3)}

KeywordBlockPool == {MkBlock(vs, segs) : vs \in VerticesPool, segs \in SegmentPool}

KeywordPages == SeqsUpTo(KeywordBlockPool, MaxKeywordBlocks)

\* the element resolved from the visual element of page 1
DetectedFigure ==
    [page |-> 1, element_id |-> <<"element", 1>>, type |-> "figure",
     coordinates |-> <<[x |-> 40, y |-> 40], [x |-> 120, y |-> 40],
                       [x |-> 120, y |-> 100], [x |-> 40, y |-> 100]>>,
     bounding_box |-> [left |-> 40, top |-> 40, right |-> 120,
                       bottom |-> 100, width |-> 80, height |-> 60]]

\* no routine was called yet
NoCall == [routine |-> "none"]

\* ------------------------------------------- inputs of the routine calls
\* a segment whose start_index is no number
BadSegment == [start_index |-> 0, end_index |-> 0, wrong_type |-> TRUE]

\* a vertex whose x is no number
BadVertex == [x |-> 0, y |-> 0, wrong_type |-> TRUE]

\* text_segments an element may carry.  DocumentText has 21 characters: the
\* first name is [0:6], the second [7:13], a line end [13:14], a blank
\* [17:18].  None; one span; two spans, in both orders; a negative start; a
\* negative end; an end past the text; a span past the text; two spans of
\* blanks; a span that ends before it starts; an index that is no number,
\* alone and after a well-formed span
ResolverSegmentPool ==
    {<<>>,
     <<Segment(0, 6)>>,
     <<Segment(0, 6), Segment(7, 13)>>,
     <<Segment(7, 13), Segment(0, 6)>>,
     <<Segment(-7, 21)>>,
     <<Segment(0, -15)>>,
     <<Segment(14, 99)>>,
     <<Segment(30, 40)>>,
     <<Segment(13, 14), Segment(17, 18)>>,
     <<Segment(6, 3)>>,
     <<BadSegment>>,
     <<Segment(0, 6), BadSegment>>}

\* normalized_vertices an element may carry: none; the box (0.1, 0.1, 0.3,
\* 0.3); three of its points; a box that starts left of the page; a box
\* that ends right of the page; a box whose point 0 is the bottom-right
\* corner; a box with left = right; five points; a point that is no number
ResolverVerticesPool ==
    {<<>>,
     Quad(40, 40, 120, 120),
     SubSeq(Quad(40, 40, 120, 120), 1, 3),
     Quad(-10, 40, 120, 120),
     Quad(360, 0, 480, 40),
     Quad(120, 120, 40, 40),
     Quad(40, 40, 40, 120),
     Quad(40, 40, 120, 120) \o <<[x |-> 40, y |-> 80]>>,
     <<BadVertex>> \o Tail(Quad(40, 40, 120, 120))}

ElementPool ==
    {MkBlock(vs, segs) : vs \in ResolverVerticesPool, segs \in ResolverSegmentPool}

\* visual elements of the provider: a type name and normalized_vertices
VisualPool ==
    {[type |-> t, vertices |-> vs] :
        t \in {"figure", "FIGURE", "Table"}, vs \in ResolverVerticesPool}

\* the sizes a page image may decode to, in pixels
RasterPool ==
    {[width |-> 1000, height |-> 1000], [width |-> 33, height |-> 21]}

\* figures the cropper may be given: the visual elements the resolver
\* returns, an estimated figure of the grid-gap estimator and one of the
\* keyword estimator
CropFigurePool ==
    ({ExtractVisualElementWithCoordinates(e, 1, 1) : e \in VisualPool} \ {None})
        \cup {EstimatedFigure(1, 1, Cell(5, 5))}
        \cup {KeywordAreas(<<MkBlock(Quad(160, 180, 240, 220), <<Segment(0, 6)>>)>>,
                           chair_keywords[1], DocumentText)[1]}

\* polygons of the blocks and paragraphs of a page: the box (0.1, 0.1, 0.3,
\* 0.3) and a box with left = right
PolygonPool ==
    {Quad(40, 40, 120, 120), Quad(40, 40, 40, 120)}

PolygonLists == SeqsUpTo(PolygonPool, MaxCoords)

\* the elem_data the page loop of layout_parser_v1 builds for a visual
\* element
V1ElemData(element, elem_num) ==
    [element_id |-> elem_num,
     type |-> element.type,
     coordinates |-> ExtractCoordinatesFromLayout(element.vertices),
     coordinates_found |-> Len(ExtractCoordinatesFromLayout(element.vertices))]

\* the state after construction, but for pc and document.text
Fresh ==
    /\ caller = "none"
    /\ areas = <<>>
    /\ merged = <<>>
    /\ used = {}
    /\ i = 1
    /\ current_area = NoArea
    /\ changed = FALSE
    /\ members = {}
    /\ groups = <<>>
    /\ passes = 0
    /\ page = <<>>
    /\ text_regions = <<>>
    /\ page_num = 1
    /\ visual_elements = <<>>
    /\ total_figures = 0
    /\ base = 0
    /\ run = 0
    /\ first_out = <<>>
    /\ call = NoCall
    /\ text_blocks = <<>>
    /\ page_images = <<>>
    /\ extracted_figures = <<>>
    /\ figure_elements = <<>>
    /\ figure_at = 1
    /\ extracted_count = 0
    /\ attempts = <<>>
    /\ page_elements = <<>>

Init ==
    /\ pc = "page_1"
    /\ full_text = <<>>
    /\ Fresh

\* ------------------------------------------------------- the page loop
\* page 1 of the document has one visual element, so no fallback runs on
\* it: elem_data is appended and counted as a figure, and the loop goes on to
\* page 2, whose visual_elements are empty
ResolveFirstPage ==
    /\ pc = "page_1"
    /\ visual_elements' = Append(visual_elements, DetectedFigure)
    /\ total_figures' = total_figures + 1
    /\ page_num' = page_num + 1
    /\ pc' = "idle"
    /\ UNCHANGED <<extractVars, caller, mergeVars, page, full_text, text_regions, runVars>>

\* ------------------------------------------------- the merger, step by step
\* entry of _merge_adjacent_areas: merged = [], used = set()
EnterMerge(input) ==
    /\ areas' = input
    /\ merged' = <<>>
    /\ used' = {}
    /\ i' = 1
    /\ current_area' = NoArea
    /\ changed' = FALSE
    /\ members' = {}
    /\ groups' = <<>>
    /\ passes' = 0

\* a caller hands a list of regions to the merger
MergeCall ==
    /\ pc = "idle"
    /\ \E input \in AreaLists : EnterMerge(input)
    /\ pc' = "for_i"
    /\ caller' = "merge"
    /\ UNCHANGED <<extractVars, pageVars, resultVars, runVars>>

\* the outer loop reaches the next index that is not used and seeds a group:
\* current_area = area.copy(); used.add(i); changed = True
MergeSeed ==
    /\ pc = "for_i"
    /\ SeedsFrom(areas, i, used) # {}
    /\ LET k == SetMin(SeedsFrom(areas, i, used))
       IN  /\ i' = k
           /\ current_area' = areas[k]
           /\ used' = used \cup {k}
           /\ members' = {k}
    /\ changed' = TRUE
    /\ passes' = 0
    /\ pc' = "while"
    /\ UNCHANGED <<extractVars, caller, areas, merged, groups, pageVars, resultVars, runVars>>

\* one run of the while body: changed = False, then the whole for-j scan
MergePass ==
    /\ pc = "while"
    /\ changed
    /\ LET st == ScanPass(areas, 1, Len(areas),
                          [cur |-> current_area, used |-> used,
                           changed |-> FALSE])
       IN  /\ current_area' = st.cur
           /\ used' = st.used
           /\ changed' = st.changed
           /\ members' = members \cup (st.used \ used)
           /\ areas' = AreasAfterWrites(areas, i, st.cur)
    /\ passes' = passes + 1
    /\ UNCHANGED <<extractVars, pc, caller, merged, i, groups, pageVars, resultVars, runVars>>

\* the while loop ends: merged.append(current_area), next i
MergeEmit ==
    /\ pc = "while"
    /\ ~changed
    /\ merged' = Append(merged, current_area)
    /\ groups' = Append(groups, members)
    /\ i' = i + 1
    /\ pc' = "for_i"
    /\ UNCHANGED <<extractVars, caller, areas, used, current_area, changed, members, passes,
                   pageVars, resultVars, runVars>>

\* the outer loop is exhausted: return merged
MergeReturn ==
    /\ pc = "for_i"
    /\ SeedsFrom(areas, i, used) = {}
    /\ pc' = IF caller = "estimate" THEN "filter" ELSE "done"
    /\ UNCHANGED <<extractVars, caller, mergeVars, pageVars, resultVars, runVars>>

\* ------------------------------------------- the grid-gap estimator, steps
\* _estimate_visual_regions_from_text_gaps up to the call of the merger; a
\* second run is a run on the same page
EstimateCall ==
    /\ \E pg \in GapPages :
          /\ \/ pc = "idle" /\ run' = 1 /\ first_out' = <<>>
             \/ /\ pc = "done" /\ caller = "estimate"
                /\ run < MaxRuns /\ pg = page
                /\ run' = run + 1
                /\ first_out' = SubSeq(visual_elements, base + 1, Len(visual_elements))
          /\ page' = pg
          /\ LET regions == CollectTextRegions(pg)
                 cells == IF pg = <<>> \/ TooFewRegions(regions)
                          THEN <<>>
                          ELSE CandidateCells(regions, 0)
             IN  /\ text_regions' = IF pg = <<>> THEN <<>> ELSE regions
                 /\ EnterMerge(cells)
                 /\ pc' = IF cells = <<>> THEN "done" ELSE "for_i"
    /\ caller' = "estimate"
    /\ base' = Len(visual_elements)
    /\ UNCHANGED <<extractVars, page_num, full_text, resultVars>>

\* the rest of the estimator once the merger has returned: the size filter
\* and one estimated_figure per significant area
EstimateFilter ==
    /\ pc = "filter"
    /\ LET significant == SelectSeq(merged, SignificantArea)
       IN  /\ visual_elements' =
                  visual_elements \o EstimatedFigures(page_num, significant)
           /\ total_figures' = total_figures + Len(significant)
    /\ pc' = "done"
    /\ UNCHANGED <<extractVars, caller, mergeVars, pageVars, runVars>>

\* -------------------------------------------------- the keyword estimator
\* _extract_estimated_image_areas_by_keywords: every keyword in turn, every
\* matching block of it in turn, one estimated area each
ExtractEstimatedImageAreasByKeywords ==
    /\ pc = "idle"
    /\ \E pg \in KeywordPages :
          /\ page' = pg
          /\ full_text' = DocumentText
          /\ LET created == AllKeywordAreas(pg, 1, DocumentText)
             IN  /\ visual_elements' = visual_elements \o created
                 /\ total_figures' = total_figures + Len(created)
    /\ base' = Len(visual_elements)
    /\ caller' = "keyword"
    /\ pc' = "done"
    /\ UNCHANGED <<extractVars, mergeVars, page_num, text_regions, run, first_out>>

Next ==
    \/ ResolveFirstPage
    \/ MergeCall
    \/ MergeSeed
    \/ MergePass
    \/ MergeEmit
    \/ MergeReturn
    \/ EstimateCall
    \/ EstimateFilter
    \/ ExtractEstimatedImageAreasByKeywords

Spec == Init /\ [][Next]_vars

\* ------------------------------------------------- the routines, one call
\* the text resolvers, the visual resolver and the croppers of the five
\* programs, each called on its own with arguments of the pools
RoutineInit ==
    /\ pc = "routine"
    /\ full_text = DocumentText
    /\ Fresh

RoutineUnchanged ==
    UNCHANGED <<pc, caller, mergeVars, pageVars, resultVars, runVars,
                text_blocks, page_images, extracted_figures, figure_elements,
                figure_at, extracted_count, attempts, page_elements>>

CallExtractTextBlock ==
    /\ pc = "routine"
    /\ \E block \in ElementPool :
          call' = [routine |-> "_extract_text_block_with_coordinates",
                   element |-> block,
                   raised |-> FALSE,
                   result |-> ExtractTextBlockWithCoordinates(block, full_text, 1, 1)]
    /\ RoutineUnchanged

CallExtractTextElement ==
    /\ pc = "routine"
    /\ \E element \in ElementPool :
          call' = [routine |-> "_extract_text_element_with_coordinates",
                   element |-> element,
                   raised |-> FALSE,
                   result |-> ExtractTextElementWithCoordinates(
                                  element, full_text, 1, 1, "paragraph")]
    /\ RoutineUnchanged

CallExtractVisualElement ==
    /\ pc = "routine"
    /\ \E element \in VisualPool :
          call' = [routine |-> "_extract_visual_element_with_coordinates",
                   element |-> element,
                   raised |-> FALSE,
                   result |-> ExtractVisualElementWithCoordinates(element, 1, 1)]
    /\ RoutineUnchanged

CallExtractElementData ==
    /\ pc = "routine"
    /\ \E element \in ElementPool :
          call' = [routine |-> "_extract_element_data",
                   element |-> element,
                   raised |-> ExtractElementDataRaises(element, full_text),
                   result |-> ExtractElementData(element, full_text)]
    /\ RoutineUnchanged

CallExtractTextFromLayout ==
    /\ pc = "routine"
    /\ \E element \in ElementPool :
          call' = [routine |-> "_extract_text_from_layout",
                   element |-> element,
                   raised |-> FALSE,
                   result |-> [text |-> ExtractTextFromLayout(element, full_text)]]
    /\ RoutineUnchanged

CallLayoutToText ==
    /\ pc = "routine"
    /\ \E element \in ElementPool :
          call' = [routine |-> "layout_to_text",
                   element |-> element,
                   raised |-> LayoutToTextRaises(element),
                   result |-> [text |-> LayoutToText(element, full_text)]]
    /\ RoutineUnchanged

CallCropFigureFromPage ==
    /\ pc = "routine"
    /\ \E figure \in CropFigurePool, raster \in RasterPool :
          \E info \in CropFigureFromPage(figure, SavePageImage(figure.page, raster)) :
              call' = [routine |-> "_crop_figure_from_page",
                       figure |-> figure,
                       page_image |-> SavePageImage(figure.page, raster),
                       raised |-> FALSE,
                       result |-> info]
    /\ RoutineUnchanged

CallExtractFigureImage ==
    /\ pc = "routine"
    /\ \E element \in VisualPool, page_image \in RasterPool \cup {None} :
          call' = [routine |-> "_extract_figure_image",
                   element_data |-> V1ElemData(element, 1),
                   page_image |-> page_image,
                   raised |-> FALSE,
                   result |-> ExtractFigureImage(page_image, V1ElemData(element, 1), 1, 1)]
    /\ RoutineUnchanged

CallExtractFromPagesBlocks ==
    /\ pc = "routine"
    /\ \E page_image \in RasterPool \cup {None},
          blocks \in PolygonLists, paragraphs \in PolygonLists :
          call' = [routine |-> "extract_from_pages_blocks",
                   page_image |-> page_image,
                   blocks_coords |-> BlocksWithCoordinates(blocks),
                   paras_coords |-> ParagraphsWithCoordinates(paragraphs),
                   raised |-> FALSE,
                   result |-> [extracted_figures |->
                       ExtractFromPagesBlocks(page_image,
                           BlocksWithCoordinates(blocks),
                           ParagraphsWithCoordinates(paragraphs), 1)]]
    /\ RoutineUnchanged

RoutineNext ==
    \/ CallExtractTextBlock
    \/ CallExtractTextElement
    \/ CallExtractVisualElement
    \/ CallExtractElementData
    \/ CallExtractTextFromLayout
    \/ CallLayoutToText
    \/ CallCropFigureFromPage
    \/ CallExtractFigureImage
    \/ CallExtractFromPagesBlocks

RoutineSpec == RoutineInit /\ [][RoutineNext]_vars

\* ------------------------------------- the document, page by page, and
\* ------------------------------------- the extraction of its figures
\* page.blocks of a page: none; a block with the first chair name and a
\* block without text; a band of text over rows 0-1 with the second chair
\* name and a band without text over rows 1-17; a text block that ends
\* right of the page and a block without text whose point 0 is its
\* bottom-right corner; two blocks with the first chair name
ExtractBlockLists ==
    {<<>>,
     <<MkBlock(Quad(160, 180, 240, 220), <<Segment(0, 6)>>),
       MkBlock(Quad(40, 40, 120, 120), <<>>)>>,
     <<MkBlock(Quad(0, 0, Page, 2 * GridSize), <<Segment(7, 13)>>),
       MkBlock(Quad(0, GridSize, Page, 18 * GridSize), <<>>)>>,
     <<MkBlock(Quad(360, 0, 480, 40), <<Segment(0, 6)>>),
       MkBlock(Quad(120, 120, 40, 40), <<>>)>>,
     <<MkBlock(Quad(160, 180, 240, 220), <<Segment(0, 6)>>),
       MkBlock(Quad(0, 0, 40, 40), <<Segment(0, 6)>>)>>}

\* page.visual_elements of a page: none; a figure; a figure with left =
\* right and then a figure; a figure that starts left of the page, a table
\* and a figure with three points; a figure with three points only
ExtractVisualLists ==
    {<<>>,
     <<[type |-> "figure", vertices |-> Quad(40, 40, 120, 120)]>>,
     <<[type |-> "figure", vertices |-> Quad(40, 40, 40, 120)],
       [type |-> "FIGURE", vertices |-> Quad(160, 180, 240, 220)]>>,
     <<[type |-> "figure", vertices |-> Quad(-10, 40, 120, 120)],
       [type |-> "Table", vertices |-> Quad(0, 0, 40, 40)],
       [type |-> "figure", vertices |-> SubSeq(Quad(40, 40, 120, 120), 1, 3)]>>,
     <<[type |-> "figure", vertices |-> SubSeq(Quad(40, 40, 120, 120), 1, 3)]>>}

\* page.image of a page: none that can be saved, or a raster
ExtractImages == {None, [width |-> 1000, height |-> 1000]}

ExtractPages ==
    [blocks : ExtractBlockLists, visual_elements : ExtractVisualLists,
     image : ExtractImages]

ExtractInit ==
    /\ pc = "page"
    /\ full_text = DocumentText
    /\ Fresh

\* one turn of "for page_idx, page in enumerate(document.pages)": the text
\* blocks, the visual elements or else the three fallbacks, the page image
AnalyzePage ==
    /\ pc = "page"
    /\ page_num <= MaxPages
    /\ \E pg \in ExtractPages :
          /\ page' = pg.blocks
          /\ page_elements' = pg.visual_elements
          /\ text_blocks' =
                 text_blocks \o ResolvedTextBlocks(pg.blocks, full_text, page_num, 1)
          /\ visual_elements' =
                 visual_elements \o
                     (IF pg.visual_elements # <<>>
                      THEN ResolvedVisualElements(pg.visual_elements, page_num, 1)
                      ELSE FallbackElements(pg.blocks, full_text, page_num))
          /\ total_figures' = total_figures + FiguresCounted(pg, full_text, page_num)
          /\ page_images' =
                 IF pg.image # None
                 THEN Append(page_images, SavePageImage(page_num, pg.image))
                 ELSE page_images
    /\ base' = Len(visual_elements)
    /\ page_num' = page_num + 1
    /\ UNCHANGED <<pc, caller, mergeVars, full_text, text_regions, run, first_out,
                   call, extracted_figures, figure_elements, figure_at,
                   extracted_count, attempts>>

\* the page loop is over and _extract_figure_images is entered: without a
\* figure element it returns at once
ExtractFigureImagesCall ==
    /\ pc = "page"
    /\ figure_elements' = SelectSeq(visual_elements, IsFigureElement)
    /\ figure_at' = 1
    /\ extracted_count' = 0
    /\ pc' = IF SelectSeq(visual_elements, IsFigureElement) = <<>>
             THEN "returned" ELSE "for_figure"
    /\ UNCHANGED <<caller, mergeVars, pageVars, resultVars, runVars, call,
                   text_blocks, page_images, extracted_figures, attempts,
                   page_elements>>

\* mutant: a figure without page image ends the loop
BreakAt(at, figures) == Len(figures) + 1

\* "if not page_image: ... continue": the loop goes on with the figure
\* after the one at position at
ContinueAt(at, figures) == at + 1

\* one turn of "for figure in figure_elements"
CropNextFigure ==
    /\ pc = "for_figure"
    /\ figure_at <= Len(figure_elements)
    /\ LET figure == figure_elements[figure_at]
           page_image == PageImageOf(page_images, figure.page)
       IN  IF page_image = None
           THEN /\ attempts' = Append(attempts, "no_page_image")
                /\ figure_at' = ContinueAt(figure_at, figure_elements)
                /\ UNCHANGED <<extracted_figures, extracted_count>>
           ELSE /\ \E cropped_info \in CropFigureFromPage(figure, page_image) :
                      IF cropped_info # None
                      THEN /\ extracted_figures' = Append(extracted_figures, cropped_info)
                           /\ extracted_count' = extracted_count + 1
                           /\ attempts' = Append(attempts, "cropped")
                      ELSE /\ attempts' = Append(attempts, "crop_failed")
                           /\ UNCHANGED <<extracted_figures, extracted_count>>
                /\ figure_at' = figure_at + 1
    /\ UNCHANGED <<pc, caller, mergeVars, pageVars, resultVars, runVars, call,
                   text_blocks, page_images, figure_elements, page_elements>>

\* the loop is over: total_figures = extracted_count
ExtractFigureImagesReturn ==
    /\ pc = "for_figure"
    /\ figure_at > Len(figure_elements)
    /\ total_figures' = extracted_count
    /\ pc' = "returned"
    /\ UNCHANGED <<caller, mergeVars, pageVars, visual_elements, runVars,
                   extractVars>>

ExtractNext ==
    \/ AnalyzePage
    \/ ExtractFigureImagesCall
    \/ CropNextFigure
    \/ ExtractFigureImagesReturn

ExtractSpec == ExtractInit /\ [][ExtractNext]_vars

\* ------------------------------------------------------------ properties
\* _merge_adjacent_areas has returned to its caller
MergerReturned ==
    /\ pc \in {"filter", "done"}
    /\ caller \in {"merge", "estimate"}

Indices == 1..Len(areas)

\* C1: the merger returns at most as many regions as it was given, and the
\* index sets absorbed into the returned regions partition the input
\* indices: every input region is in exactly one of them.
C1_MergePartition ==
    MergerReturned =>
        /\ Len(merged) <= Len(areas)
        /\ Len(groups) = Len(merged)
        /\ \A k \in Indices :
               Cardinality({g \in 1..Len(groups) : k \in groups[g]}) = 1
        /\ \A g \in 1..Len(groups) : groups[g] \subseteq Indices

C1_Witness ==
    /\ pc = "done"
    /\ caller = "merge"
    /\ Len(areas) >= 3
    /\ Len(merged) > 1
    /\ Len(merged) < Len(areas)

\* the four edge-pair gaps, one of them below the tolerance 1.1/grid_n
GapBelowTolerance(u, o) ==
    \/ Abs(u.right - o.left) < Tolerance
    \/ Abs(u.left - o.right) < Tolerance
    \/ Abs(u.bottom - o.top) < Tolerance
    \/ Abs(u.top - o.bottom) < Tolerance

IsBoundingUnion(r, K) ==
    /\ K # {}
    /\ \A k \in K : /\ r.left <= areas[k].left
                    /\ r.top <= areas[k].top
                    /\ r.right >= areas[k].right
                    /\ r.bottom >= areas[k].bottom
    /\ \E k \in K : r.left = areas[k].left
    /\ \E k \in K : r.top = areas[k].top
    /\ \E k \in K : r.right = areas[k].right
    /\ \E k \in K : r.bottom = areas[k].bottom
    /\ r.width = r.right - r.left
    /\ r.height = r.bottom - r.top
    /\ r.area = r.width * r.height

TwoByTwoBlock == {Cell(0, 0), Cell(0, 1), Cell(1, 0), Cell(1, 1)}

\* C2: each emitted region is the bounding union of the input regions
\* absorbed into it, with width, height and area recomputed; when a region
\* is about to be emitted no unused input region is adjacent to it; the
\* 2x2 block of grid cells merges into one region of four cell areas.
C2_TransitiveUnion ==
    /\ \A g \in 1..Len(merged) :
           g <= Len(groups) => IsBoundingUnion(merged[g], groups[g])
    /\ (pc = "while" /\ ~changed) =>
           \A j \in Indices \ used : ~GapBelowTolerance(current_area, areas[j])
    /\ (MergerReturned /\ Len(areas) = 4
            /\ {areas[k] : k \in Indices} = TwoByTwoBlock) =>
           /\ Len(merged) = 1
           /\ merged[1].left = 0 /\ merged[1].top = 0
           /\ merged[1].right = 2 * GridSize /\ merged[1].bottom = 2 * GridSize
           /\ merged[1].area * (GridSize * GridSize) = 4 * (Page * Page)

C2_Witness ==
    /\ pc = "done"
    /\ caller = "merge"
    /\ areas = <<Cell(0, 0), Cell(0, 1), Cell(1, 0), Cell(1, 1)>>
    /\ Len(merged) = 1
    /\ merged[1].area = 4 * Cell(0, 0).area
    /\ groups = <<{1, 2, 3, 4}>>

\* the running union when index j is examined in a pass that started from
\* cur and absorbed the indices S
UnionBefore(cur, S, j, o) ==
    LET K == {k \in S : k < j}
        l == IF \E k \in K : areas[k].left < cur.left
             THEN CHOOSE v \in {areas[k].left : k \in K} :
                      \A k \in K : v <= areas[k].left
             ELSE cur.left
        t == IF \E k \in K : areas[k].top < cur.top
             THEN CHOOSE v \in {areas[k].top : k \in K} :
                      \A k \in K : v <= areas[k].top
             ELSE cur.top
        r == IF \E k \in K : areas[k].right > cur.right
             THEN CHOOSE v \in {areas[k].right : k \in K} :
                      \A k \in K : v >= areas[k].right
             ELSE cur.right
        b == IF \E k \in K : areas[k].bottom > cur.bottom
             THEN CHOOSE v \in {areas[k].bottom : k \in K} :
                      \A k \in K : v >= areas[k].bottom
             ELSE cur.bottom
    IN  GapBelowTolerance([left |-> l, top |-> t, right |-> r, bottom |-> b], o)

C3_PassAbsorbsAdjacent ==
    (pc = "while" /\ changed /\ pc' = "while") =>
        \A j \in Indices \ used :
            (j \in used') <=>
                UnionBefore(current_area, used' \ used, j, areas[j])

C3_DiagonalKept ==
    (MergerReturned /\ Len(areas) = 2
        /\ Abs(areas[1].right - areas[2].left) > Tolerance
        /\ Abs(areas[1].left - areas[2].right) > Tolerance
        /\ Abs(areas[1].bottom - areas[2].top) > Tolerance
        /\ Abs(areas[1].top - areas[2].bottom) > Tolerance) =>
        merged = areas

\* C3: in a pass a region is absorbed into the running union if and only
\* if one of the four edge-pair gaps to the union is below the tolerance;
\* two cells with all four gaps above the tolerance are returned as two
\* unchanged regions.
C3_AbsorbIffAdjacent ==
    /\ [][C3_PassAbsorbsAdjacent]_vars
    /\ [](C3_DiagonalKept)

C3_Witness ==
    /\ pc = "while"
    /\ passes = 1
    /\ Cardinality(members) >= 2
    /\ \E j \in Indices \ used :
           /\ ~GapBelowTolerance(current_area, areas[j])
           /\ Abs(current_area.right - areas[j].left) = Tolerance

\* ------------------------------------------- properties of the estimator
\* indices of the blocks of the page that count as known text regions
KnownIndices == {k \in 1..Len(page) : Len(page[k].vertices) >= 4}

\* the box of block k: vertex 0 is its top-left, vertex 2 its bottom-right
KnownBox(k) ==
    [left |-> page[k].vertices[1].x, top |-> page[k].vertices[1].y,
     right |-> page[k].vertices[3].x, bottom |-> page[k].vertices[3].y]

GridRange == 0..(GridSize - 1)

\* cell (row, col) strictly overlaps the box of block k
CellOverlapsBox(row, col, k) ==
    /\ (col + 1) * GridSize > KnownBox(k).left
    /\ col * GridSize < KnownBox(k).right
    /\ (row + 1) * GridSize > KnownBox(k).top
    /\ row * GridSize < KnownBox(k).bottom

CellFree(row, col) == \A k \in KnownIndices : ~CellOverlapsBox(row, col, k)

CellRecord(row, col) ==
    [left |-> col * GridSize, top |-> row * GridSize,
     right |-> (col + 1) * GridSize, bottom |-> (row + 1) * GridSize,
     width |-> GridSize, height |-> GridSize, area |-> GridSize * GridSize]

\* the estimator has walked the grid of this page
GridWalked == caller = "estimate" /\ Cardinality(KnownIndices) >= 2

\* C4: a grid cell is in the candidate list if and only if it strictly
\* overlaps no known text region; a cell that only touches a text box
\* along an edge is a candidate.
C4_CandidateIffNoOverlap ==
    (GridWalked /\ pc = "for_i" /\ used = {}) =>
        LET candidates == {areas[k] : k \in 1..Len(areas)}
        IN  /\ \A row \in GridRange : \A col \in GridRange :
                   (CellRecord(row, col) \in candidates) <=> CellFree(row, col)
            /\ Cardinality(candidates) = Len(areas)
            /\ Cardinality(candidates) =
                   Cardinality({rc \in GridRange \X GridRange : CellFree(rc[1], rc[2])})

C4_Witness ==
    /\ GridWalked
    /\ pc = "for_i"
    /\ used = {}
    /\ \E n \in 1..Len(areas) : \E k \in KnownIndices :
           /\ areas[n].top = KnownBox(k).bottom
           /\ areas[n].right > KnownBox(k).left
           /\ areas[n].left < KnownBox(k).right

C5_Step ==
    (run' # run /\ Cardinality(KnownIndices') < 2) =>
        /\ visual_elements' = visual_elements
        /\ total_figures' = total_figures
        /\ pc' = "done"

C5_Returned ==
    (caller = "estimate" /\ Cardinality(KnownIndices) < 2) =>
        /\ pc = "done"
        /\ Len(visual_elements) = base
        /\ merged = <<>>

\* C5: with fewer than 2 known text regions the estimator returns at once:
\* nothing is appended to visual_elements and total_figures is unchanged.
C5_TooFewRegionsNoEstimate ==
    /\ [][C5_Step]_vars
    /\ [](C5_Returned)

C5_Witness ==
    /\ pc = "done"
    /\ caller = "estimate"
    /\ Len(page) = 2
    /\ Cardinality(KnownIndices) = 1
    /\ visual_elements = <<DetectedFigure>>
    /\ total_figures = 1

\* the elements this run of a routine appended to visual_elements
Appended == SubSeq(visual_elements, base + 1, Len(visual_elements))

EstimatorDone == pc = "done" /\ caller = "estimate"

\* an area (in 1/Page^2 of the page) within [0.002, 0.8]
InAreaInterval(a) == 1000 * a >= 2 * Page * Page /\ 10 * a <= 8 * Page * Page

SameBox(bb, a) ==
    /\ bb.left = a.left /\ bb.top = a.top
    /\ bb.right = a.right /\ bb.bottom = a.bottom
    /\ bb.width = a.right - a.left /\ bb.height = a.bottom - a.top

\* C6: every region the estimator emits has an area within [0.002, 0.8],
\* every merged region with such an area is emitted and the others are
\* discarded.
C6_AreaFilter ==
    EstimatorDone =>
        /\ \A n \in 1..Len(Appended) :
               InAreaInterval(Appended[n].bounding_box.width
                              * Appended[n].bounding_box.height)
        /\ \A g \in 1..Len(merged) :
               InAreaInterval(merged[g].area) <=>
                   \E n \in 1..Len(Appended) :
                       SameBox(Appended[n].bounding_box, merged[g])
        /\ Len(Appended) =
               Cardinality({g \in 1..Len(merged) : InAreaInterval(merged[g].area)})
        /\ total_figures = Len(visual_elements)

C6_Witness ==
    /\ EstimatorDone
    /\ Len(merged) = 1
    /\ 10 * merged[1].area = 8 * Page * Page
    /\ Len(Appended) = 1
    /\ SameBox(Appended[1].bounding_box, merged[1])

\* the cells that no known text region overlaps
FreeCells == {rc \in GridRange \X GridRange : CellFree(rc[1], rc[2])}

RowsOf(S) == {rc[1] : rc \in S}

ColsOf(S) == {rc[2] : rc \in S}

\* the free cells are those of one rectangle of cells
OneRectangularGap ==
    /\ FreeCells # {}
    /\ FreeCells = (SetMin(RowsOf(FreeCells))..(-SetMin({-r : r \in RowsOf(FreeCells)})))
                   \X (SetMin(ColsOf(FreeCells))..(-SetMin({-c : c \in ColsOf(FreeCells)})))

KnownBoxesDisjoint ==
    \A k \in KnownIndices : \A m \in KnownIndices :
        k # m =>
            ~ /\ KnownBox(k).right > KnownBox(m).left
              /\ KnownBox(k).left < KnownBox(m).right
              /\ KnownBox(k).bottom > KnownBox(m).top
              /\ KnownBox(k).top < KnownBox(m).bottom

GapBox ==
    LET r0 == SetMin(RowsOf(FreeCells))
        r1 == -SetMin({-r : r \in RowsOf(FreeCells)})
        c0 == SetMin(ColsOf(FreeCells))
        c1 == -SetMin({-c : c \in ColsOf(FreeCells)})
    IN  [left |-> c0 * GridSize, top |-> r0 * GridSize,
         right |-> (c1 + 1) * GridSize, bottom |-> (r1 + 1) * GridSize]

GapArea == Cardinality(FreeCells) * GridSize * GridSize

GapCase ==
    /\ EstimatorDone
    /\ Cardinality(KnownIndices) >= 2
    /\ KnownBoxesDisjoint
    /\ OneRectangularGap

ReturnsTheGap ==
    /\ Len(Appended) = 1
    /\ SameBox(Appended[1].bounding_box, GapBox)
    /\ Appended[1].bounding_box.width * Appended[1].bounding_box.height = GapArea

\* C7 as claimed: whatever the size of the gap, exactly the gap rectangle
\* is returned.
C7_AnyGapReturned == GapCase => ReturnsTheGap

\* C7: at least two disjoint text regions that overlap every cell except one
\* cell-aligned rectangular gap whose area lies within [0.002, 0.8] make
\* the estimator return exactly one region, the gap rectangle.
C7_GapInIntervalReturned ==
    (GapCase /\ InAreaInterval(GapArea)) => ReturnsTheGap

C7_Witness ==
    /\ GapCase
    /\ 20 * GapArea = Page * Page
    /\ ReturnsTheGap

RowMajorIndex(a) == (a.top \div GridSize) * GridSize + a.left \div GridSize

SignificantGroups == {g \in 1..Len(merged) : InAreaInterval(merged[g].area)}

\* C8: the estimator is deterministic and ordered: candidates are listed
\* row-major, merged regions are emitted in the order of their seed cells
\* (the first cell of each group), and a second run on the same text
\* regions appends the same list in the same order.
C8_DeterministicOrder ==
    /\ caller = "estimate" =>
           /\ \A k \in 1..(Len(areas) - 1) :
                  RowMajorIndex(areas[k]) < RowMajorIndex(areas[k + 1])
           /\ \A g \in 1..Len(groups) : \A h \in 1..Len(groups) :
                  g < h => SetMin(groups[g]) < SetMin(groups[h])
    /\ EstimatorDone =>
           \A n \in 1..Len(Appended) :
               \E g \in SignificantGroups :
                   /\ Cardinality({h \in SignificantGroups : h < g}) = n - 1
                   /\ SameBox(Appended[n].bounding_box, merged[g])
                   /\ Appended[n].element_id = <<"estimated", n>>
    /\ (EstimatorDone /\ run >= 2) => Appended = first_out

C8_Witness ==
    /\ EstimatorDone
    /\ run = 2
    /\ Len(Appended) = 2
    /\ first_out = Appended
    /\ Appended[1].bounding_box.left < Appended[2].bounding_box.left

\* ---------------------------------- properties of the keyword estimator
KeywordDone == pc = "done" /\ caller = "keyword"

\* the text of block k: its spans of full_text, one after the other (the
\* spans of the model start inside the text; an end past it is cut)
RECURSIVE SpansText(_, _)
SpansText(k, n) ==
    IF n > Len(page[k].segments) THEN <<>>
    ELSE SubSeq(full_text, page[k].segments[n].start_index + 1,
                Min2(page[k].segments[n].end_index, Len(full_text)))
             \o SpansText(k, n + 1)

HasSubstring(text, word) ==
    \E at \in 1..Len(text) :
        /\ at + Len(word) - 1 <= Len(text)
        /\ \A c \in 1..Len(word) : text[at + c - 1] = word[c]

\* the pairs (keyword, block) that are to yield a region
KeywordPairs ==
    {kb \in (1..Len(chair_keywords)) \X (1..Len(page)) :
        /\ HasSubstring(SpansText(kb[2], 1), chair_keywords[kb[1]])
        /\ Len(page[kb[2]].vertices) >= 4}

\* twice the center of block k
TwiceCenterX(k) == page[k].vertices[1].x + page[k].vertices[3].x

TwiceCenterY(k) == page[k].vertices[1].y + page[k].vertices[3].y

\* C9: the estimated box of a matching element is its center moved by the
\* offsets and cut to the page: left = max(0, cx - 0.15), right =
\* min(1, cx + 0.15), top = max(0, cy - 0.1), bottom = min(1, cy + 0.1),
\* width = right - left, height = bottom - top; center (0.5, 0.5) gives
\* {0.35, 0.4, 0.65, 0.6}; a center inside the page gives
\* 0 <= left <= right <= 1 and 0 <= top <= bottom <= 1.
C9_EstimatedBox ==
    KeywordDone =>
        \A n \in 1..Len(Appended) :
            LET bb == Appended[n].bounding_box
                k == Appended[n].text_reference.block_idx
                cx2 == TwiceCenterX(k)
                cy2 == TwiceCenterY(k)
            IN  /\ 2 * bb.left = Max2(0, cx2 - (30 * Page) \div 100)
                /\ 2 * bb.right = Min2(2 * Page, cx2 + (30 * Page) \div 100)
                /\ 2 * bb.top = Max2(0, cy2 - (20 * Page) \div 100)
                /\ 2 * bb.bottom = Min2(2 * Page, cy2 + (20 * Page) \div 100)
                /\ bb.width = bb.right - bb.left
                /\ bb.height = bb.bottom - bb.top
                /\ (cx2 = Page /\ cy2 = Page) =>
                       /\ 100 * bb.left = 35 * Page /\ 100 * bb.top = 40 * Page
                       /\ 100 * bb.right = 65 * Page /\ 100 * bb.bottom = 60 * Page
                /\ (0 <= cx2 /\ cx2 <= 2 * Page /\ 0 <= cy2 /\ cy2 <= 2 * Page) =>
                       /\ 0 <= bb.left /\ bb.left <= bb.right /\ bb.right <= Page
                       /\ 0 <= bb.top /\ bb.top <= bb.bottom /\ bb.bottom <= Page

C9_Witness ==
    /\ KeywordDone
    /\ \E n \in 1..Len(Appended) :
           /\ TwiceCenterX(Appended[n].text_reference.block_idx) = Page
           /\ TwiceCenterY(Appended[n].text_reference.block_idx) = Page
           /\ 100 * Appended[n].bounding_box.left = 35 * Page
    /\ \E n \in 1..Len(Appended) :
           /\ Appended[n].bounding_box.left = 0
           /\ Appended[n].bounding_box.top = 0

C10_Step ==
    (pc = "idle" /\ caller' = "keyword") =>
        /\ Len(visual_elements') = Len(visual_elements) + Cardinality(KeywordPairs')
        /\ total_figures' = total_figures + Cardinality(KeywordPairs')
        /\ SubSeq(visual_elements', 1, Len(visual_elements)) = visual_elements

C10_Pairs ==
    KeywordDone =>
        /\ \A kb \in KeywordPairs :
               \E n \in 1..Len(Appended) :
                   /\ Appended[n].text_reference.keyword = chair_keywords[kb[1]]
                   /\ Appended[n].text_reference.block_idx = kb[2]
        /\ Len(Appended) = Cardinality(KeywordPairs)

\* C10: the keyword estimator appends exactly one region per pair of a
\* keyword and an element whose text contains it and whose polygon has at
\* least 4 points, without union or de-duplication, and total_figures
\* grows by the number of these pairs.
C10_OneRegionPerPair ==
    /\ [][C10_Step]_vars
    /\ [](C10_Pairs)

C10_Witness ==
    /\ KeywordDone
    /\ Len(page) = 2
    /\ Len(Appended) = 4
    /\ Cardinality({kb[1] : kb \in KeywordPairs}) = 2
    /\ Cardinality({kb[2] : kb \in KeywordPairs}) = 2
    /\ total_figures = 5

\* ---------------------------------------------------------- the croppers
\* a cropper was called and returned a crop result
CropReturned ==
    /\ call.routine \in {"_crop_figure_from_page", "_extract_figure_image"}
    /\ call.result # None

\* the normalized box the cropper was given
CallBox ==
    IF call.routine = "_crop_figure_from_page"
    THEN [left |-> call.figure.bounding_box.left,
          top |-> call.figure.bounding_box.top,
          right |-> call.figure.bounding_box.right,
          bottom |-> call.figure.bounding_box.bottom]
    ELSE [left |-> call.element_data.coordinates[1].x,
          top |-> call.element_data.coordinates[1].y,
          right |-> call.element_data.coordinates[3].x,
          bottom |-> call.element_data.coordinates[3].y]

\* the pixel box and the size the cropper reported
CallPixels ==
    IF call.routine = "_crop_figure_from_page"
    THEN call.result.pixel_coordinates
    ELSE call.result.coordinates

CallSize ==
    IF call.routine = "_crop_figure_from_page"
    THEN [width |-> call.result.width, height |-> call.result.height]
    ELSE call.result.size

\* q = floor(n / Page) for a coordinate of n / Page
IsFloor(q, n) == q * Page <= n /\ n < (q + 1) * Page

\* every coordinate is a fraction of the page, in [0, 1]
IsNormalized(box) ==
    /\ box.left \in 0..Page /\ box.right \in 0..Page
    /\ box.top \in 0..Page /\ box.bottom \in 0..Page

\* the box {0.1, 0.1, 0.3, 0.3}
TenthsBox ==
    [left |-> Page \div 10, top |-> Page \div 10,
     right |-> (3 * Page) \div 10, bottom |-> (3 * Page) \div 10]

\* C11: a crop result for a normalized box (coordinates in [0, 1]) reports
\* the pixel box left = floor(box.left * pixel_width), top = floor(box.top *
\* pixel_height), right = floor(box.right * pixel_width), bottom =
\* floor(box.bottom * pixel_height) with width = right - left and height =
\* bottom - top; for the box {0.1, 0.1, 0.3, 0.3} on a raster of 1000 x 1000
\* pixels the pixel box is {100, 100, 300, 300}.
C11_PixelBox ==
    (CropReturned /\ IsNormalized(CallBox)) =>
        /\ IsFloor(CallPixels.left, CallBox.left * call.page_image.width)
        /\ IsFloor(CallPixels.top, CallBox.top * call.page_image.height)
        /\ IsFloor(CallPixels.right, CallBox.right * call.page_image.width)
        /\ IsFloor(CallPixels.bottom, CallBox.bottom * call.page_image.height)
        /\ CallSize.width = CallPixels.right - CallPixels.left
        /\ CallSize.height = CallPixels.bottom - CallPixels.top
        /\ (CallBox = TenthsBox /\ call.page_image.width = 1000
                /\ call.page_image.height = 1000)
             => CallPixels = [left |-> 100, top |-> 100,
                              right |-> 300, bottom |-> 300]

\* the box {0.1, 0.1, 0.3, 0.3} was cropped from a raster of 33 x 21 pixels,
\* where no product is a whole number of pixels
C11_Witness ==
    /\ CropReturned
    /\ call.routine = "_crop_figure_from_page"
    /\ CallBox = TenthsBox
    /\ call.page_image.width = 33
    /\ CallPixels = [left |-> 3, top |-> 2, right |-> 9, bottom |-> 6]

\* the pixel box InvalidBox stands for: no width, no height, or a negative
\* coordinate
InvalidPixelBox(px) ==
    \/ px.left >= px.right
    \/ px.top >= px.bottom
    \/ px.left < 0 \/ px.top < 0 \/ px.right < 0 \/ px.bottom < 0

\* C12: a cropper whose pixel box has left >= right or top >= bottom or a
\* negative coordinate returns no crop result: no crop result of
\* _crop_figure_from_page or _extract_figure_image carries such a pixel box.
C12_InvalidBoxFails == CropReturned => ~InvalidPixelBox(CallPixels)

\* ----------------------------------------------------- the text resolvers
TextRoutines ==
    {"_extract_text_block_with_coordinates",
     "_extract_text_element_with_coordinates",
     "_extract_element_data",
     "_extract_text_from_layout",
     "layout_to_text"}

\* a text-resolving routine was called and returned a result with a text
TextResolved ==
    /\ call.routine \in TextRoutines
    /\ ~call.raised
    /\ call.result # None

\* the spans of the call are numbers
SpansWellFormed ==
    \A k \in 1..Len(call.element.segments) :
        "wrong_type" \notin DOMAIN call.element.segments[k]

\* the spans of the call lie in the text: 0 <= start <= end <= len(full_text)
SpansInText ==
    \A k \in 1..Len(call.element.segments) :
        /\ 0 <= call.element.segments[k].start_index
        /\ call.element.segments[k].start_index <= call.element.segments[k].end_index
        /\ call.element.segments[k].end_index <= Len(full_text)

\* full_text[start:end] of the spans from the k-th on, one after the other
RECURSIVE SpansJoined(_, _)
SpansJoined(segments, k) ==
    IF k > Len(segments) THEN <<>>
    ELSE SubSeq(full_text, segments[k].start_index + 1, segments[k].end_index)
             \o SpansJoined(segments, k + 1)

\* C15: for every element with one or more text spans (here: spans that lie
\* in the text), the text each of the five text-resolving routines resolves
\* is the concatenation, in span order, of full_text[start:end] over all
\* of its spans.
C15_SpansConcatenated ==
    (/\ TextResolved
     /\ Len(call.element.segments) >= 1
     /\ SpansWellFormed
     /\ SpansInText)
        => call.result.text = SpansJoined(call.element.segments, 1)

\* an index clamped into [0, len(full_text)]
Clamped(index) == Max2(0, Min2(index, Len(full_text)))

\* full_text[s:e] with s and e the clamped indices of the span
ClampedSlice(segment) ==
    SubSeq(full_text, Clamped(segment.start_index) + 1, Clamped(segment.end_index))

\* C16: for any span (start, end) of numbers, also past the end of the text
\* or negative, text resolution does not raise, and the text resolved for
\* an element with that one span is full_text[s:e] with s and e clamped
\* into [0, len(full_text)], a negative index counting as 0.
C16_SpansClamped ==
    (/\ call.routine \in TextRoutines
     /\ Len(call.element.segments) = 1
     /\ SpansWellFormed)
        => /\ ~call.raised
           /\ call.result # None =>
                  call.result.text = ClampedSlice(call.element.segments[1])

\* ---------------------------------------------------------- the resolvers
\* the routines that resolve the text and the box of an element
ElementRoutines ==
    {"_extract_text_block_with_coordinates",
     "_extract_text_element_with_coordinates",
     "_extract_element_data"}

\* no point of the polygon of the call is malformed
PolygonWellFormed ==
    \A k \in 1..Len(call.element.vertices) :
        "wrong_type" \notin DOMAIN call.element.vertices[k]

\* the text the spans of the call point at has a character that is no blank
SpansHaveText ==
    \E k \in 1..Len(SpansJoined(call.element.segments, 1)) :
        SpansJoined(call.element.segments, 1)[k] \notin {" ", "nl"}

\* the result of the call carries a box / a text
CarriesBox ==
    /\ call.result # None
    /\ IF call.routine = "_extract_element_data"
       THEN call.result.coordinates_found >= 4
       ELSE "left" \in DOMAIN call.result.bounding_box

CarriesText ==
    /\ call.result # None
    /\ call.result.text = SpansJoined(call.element.segments, 1)

\* a resolver was called on an element without malformed fields whose
\* spans lie in the text
WellFormedElementResolved ==
    /\ call.routine \in ElementRoutines
    /\ SpansWellFormed
    /\ SpansInText
    /\ PolygonWellFormed

\* C17: a resolver returns None exactly when neither text nor box was
\* resolved: an element whose polygon has at least 4 points is resolved to
\* a result that carries the box, also when its text is absent or blank; an
\* element with text is resolved to a result that carries the text, also
\* without a box; an element with no span and fewer than 4 points is
\* resolved to None.
C17_NoneIffNothingResolved ==
    WellFormedElementResolved =>
        /\ ~call.raised
        /\ Len(call.element.vertices) >= 4 => CarriesBox
        /\ SpansHaveText => CarriesText
        /\ (call.element.segments = <<>> /\ Len(call.element.vertices) < 4)
               => call.result = None

\* C18: no exception leaves a resolver, and a malformed field voids only
\* that field: when a span index is no number and the polygon is well
\* formed with at least 4 points, the element is returned with its box;
\* when a point of the polygon is no number and the spans are well formed
\* and point at text, the element is returned with its text.
C18_MalformedFieldOnly ==
    call.routine \in ElementRoutines =>
        /\ ~call.raised
        /\ (~SpansWellFormed /\ PolygonWellFormed
                /\ Len(call.element.vertices) >= 4) => CarriesBox
        /\ (~PolygonWellFormed /\ SpansWellFormed /\ SpansInText
                /\ SpansHaveText) => CarriesText

\* a resolver of the Document OCR or Form Parser processor returned an
\* element
BoxResolved ==
    /\ call.routine \in {"_extract_text_block_with_coordinates",
                         "_extract_text_element_with_coordinates",
                         "_extract_visual_element_with_coordinates"}
    /\ call.result # None

\* point 0 and point 2 of the polygon of the call
Point0 == call.element.vertices[1]

Point2 == call.element.vertices[3]

\* C19: in every element a resolver returns, a polygon of at least 4 points
\* has given the box left/top = point 0, right/bottom = point 2, width =
\* right - left, height = bottom - top, and a polygon of fewer points has
\* given no box; when point 0 is the top-left and point 2 the bottom-right
\* corner, left <= right, top <= bottom, width >= 0 and height >= 0.
C19_BoxFromPoints ==
    BoxResolved =>
        IF Len(call.element.vertices) >= 4
        THEN /\ call.result.bounding_box =
                    [left |-> Point0.x, top |-> Point0.y,
                     right |-> Point2.x, bottom |-> Point2.y,
                     width |-> Point2.x - Point0.x,
                     height |-> Point2.y - Point0.y]
             /\ (Point0.x <= Point2.x /\ Point0.y <= Point2.y) =>
                    /\ call.result.bounding_box.left <= call.result.bounding_box.right
                    /\ call.result.bounding_box.top <= call.result.bounding_box.bottom
                    /\ call.result.bounding_box.width >= 0
                    /\ call.result.bounding_box.height >= 0
        ELSE /\ "left" \notin DOMAIN call.result.bounding_box
             /\ call.result.coordinates = <<>>

\* the box (0.1, 0.1, 0.3, 0.3) was built for a text block
C19_Witness ==
    /\ BoxResolved
    /\ call.routine = "_extract_text_block_with_coordinates"
    /\ call.element.vertices = Quad(40, 40, 120, 120)
    /\ call.result.bounding_box.right = 120
    /\ call.result.bounding_box.width = 80

\* ------------------------------------------- the extraction of the figures
\* _extract_figure_images has returned
ExtractionReturned == pc = "returned"

\* the turns of the for-figure loop in which a crop result was appended
CroppedTurns == {j \in 1..Len(attempts) : attempts[j] = "cropped"}

\* a page image with the page number of the figure is in the results
HasPageImage(figure) ==
    \E k \in 1..Len(page_images) : page_images[k].page = figure.page

\* the box of the figure has pixels on the raster of its page
HasPixels(figure) ==
    \A k \in 1..Len(page_images) :
        page_images[k].page = figure.page =>
            /\ (figure.bounding_box.left * page_images[k].width) \div Page
                   < (figure.bounding_box.right * page_images[k].width) \div Page
            /\ (figure.bounding_box.top * page_images[k].height) \div Page
                   < (figure.bounding_box.bottom * page_images[k].height) \div Page

\* C13: when _extract_figure_images returns, every figure element had its
\* turn, whatever happened to the figures before it (no page image, or a
\* crop that failed): a figure without page image was skipped, a figure
\* whose box has pixels on its page image was cropped, and
\* extracted_figures holds exactly the figures whose crop succeeded, in the
\* order of the figure elements.
C13_FailureDoesNotAbort ==
    ExtractionReturned =>
        /\ figure_elements = SelectSeq(visual_elements, IsFigureElement)
        /\ Len(attempts) = Len(figure_elements)
        /\ \A j \in 1..Len(figure_elements) :
               /\ ~HasPageImage(figure_elements[j]) => attempts[j] = "no_page_image"
               /\ (HasPageImage(figure_elements[j]) /\ HasPixels(figure_elements[j]))
                      => attempts[j] = "cropped"
        /\ Len(extracted_figures) = Cardinality(CroppedTurns)
        /\ \A j \in CroppedTurns :
               LET cropped == extracted_figures[Cardinality({m \in CroppedTurns : m <= j})]
               IN  /\ cropped.page = figure_elements[j].page
                   /\ cropped.element_id = figure_elements[j].element_id
                   /\ cropped.original_coordinates = figure_elements[j].coordinates

\* a figure without page image and a figure whose crop failed were
\* followed by a figure that was cropped
C13_Witness ==
    /\ ExtractionReturned
    /\ \E j, k, m \in 1..Len(attempts) :
          /\ j < m /\ k < m
          /\ attempts[j] = "no_page_image"
          /\ attempts[k] = "crop_failed"
          /\ attempts[m] = "cropped"

\* the lists of the returned results
ResultLists == <<text_blocks, visual_elements, extracted_figures, page_images>>

\* an entry of the results tells the failure of the figure and its reason
FailureRecorded(figure) ==
    \E l \in 1..Len(ResultLists) :
        \E k \in 1..Len(ResultLists[l]) :
            /\ "reason" \in DOMAIN ResultLists[l][k]
            /\ "element_id" \in DOMAIN ResultLists[l][k]
            /\ ResultLists[l][k].page = figure.page
            /\ ResultLists[l][k].element_id = figure.element_id

\* C14: after a run, every figure whose crop failed (no page image, or a
\* crop that failed) is recorded in the returned results with its reason.
C14_FailuresRecorded ==
    ExtractionReturned =>
        \A j \in 1..Len(attempts) :
            attempts[j] # "cropped" => FailureRecorded(figure_elements[j])

\* the four coordinates of the box lie in [0,1]
InUnitSquare(box) ==
    /\ 0 <= box.left /\ box.left <= Page
    /\ 0 <= box.top /\ box.top <= Page
    /\ 0 <= box.right /\ box.right <= Page
    /\ 0 <= box.bottom /\ box.bottom <= Page

\* every entry of the list that has a box has it in [0,1]
BoxesInUnitSquare(entries) ==
    \A k \in 1..Len(entries) :
        "left" \in DOMAIN entries[k].bounding_box
            => InUnitSquare(entries[k].bounding_box)

\* C20: every region appended to visual_elements or text_blocks (by the
\* resolver, as potential_image, by the grid estimator or by the keyword
\* estimator) has its four box coordinates in [0,1], whatever vertices the
\* provider returned.
C20_ProducersClamp ==
    BoxesInUnitSquare(visual_elements) /\ BoxesInUnitSquare(text_blocks)

\* ------------------------------------------------ properties of the page loop
\* a turn of the page loop is over; the page it processed is page_num - 1
PageProcessed == pc = "page" /\ page_num > 1

\* no visual element of the page has a polygon of at least 4 points
NoVisualBoxResolved ==
    \A k \in 1..Len(page_elements) : Len(page_elements[k].vertices) < 4

\* the element was made by the grid-gap estimator or the keyword estimator
IsEstimate(elem) ==
    /\ "source" \in DOMAIN elem
    /\ elem.source \in {"text_gap_analysis", "keyword_search"}

\* what the two estimators make of the blocks of the page
EstimatesOfPage ==
    EstimateVisualRegionsFromTextGaps(page, page_num - 1)
        \o AllKeywordAreas(page, 1, full_text)

\* C21: for a page for which no visual-element box was resolved (no visual
\* elements, or none with a polygon of at least 4 points) the grid-gap and
\* the keyword estimator are run, so that their estimates are appended for
\* the page; for a page with a resolved visual-element box no estimate is
\* appended.
C21_FallbackIffNoBox ==
    PageProcessed =>
        SelectSeq(Appended, IsEstimate)
            = IF NoVisualBoxResolved THEN EstimatesOfPage ELSE <<>>

\* ------------------------------------------- more properties of the merger
\* a step of the merger leaves the list it was given as it is
C22_Step == pc \in {"for_i", "while"} => areas' = areas

\* the cells the estimator handed to the merger are still the candidate
\* cells of the page
C22_CellsKept ==
    (MergerReturned /\ caller = "estimate" /\ areas # <<>>)
        => areas = CandidateCells(text_regions, 0)

\* C22: the merger never changes a region in place: no step between its
\* call and its return changes the input list or a field of one of its
\* regions, the enlarged regions being dicts of their own.
C22_InputNotMutated ==
    /\ [][C22_Step]_vars
    /\ [](C22_CellsKept)

\* the merger returned a region that is larger than the input region it
\* was seeded from
C22_Witness ==
    /\ MergerReturned
    /\ \E g \in 1..Len(merged) :
          /\ g <= Len(groups)
          /\ Cardinality(groups[g]) >= 2
          /\ merged[g].area > areas[SetMin(groups[g])].area

\* C23: no region the grid-gap estimator appends overlaps a known text
\* region: the overlap test between the box of every appended region and
\* every text region of the page is false.
C23_EstimateAvoidsText ==
    EstimatorDone =>
        \A n \in 1..Len(Appended) :
            \A k \in 1..Len(text_regions) :
                ~Overlaps(Appended[n].bounding_box, text_regions[k])

\* the merger was given distinct cells of the grid, in row-major order
CellsGiven ==
    /\ areas # <<>>
    /\ \A k \in Indices :
           \E row \in GridRange, col \in GridRange : areas[k] = Cell(row, col)
    /\ \A k \in Indices :
           k > 1 => RowMajorIndex(areas[k - 1]) < RowMajorIndex(areas[k])

\* C24: the regions the merger returns for distinct grid cells do not
\* overlap each other: the overlap test is false for every two of them, so
\* that none contains another either.
C24_OutputsDisjoint ==
    (MergerReturned /\ CellsGiven) =>
        \A g \in 1..Len(merged) :
            \A h \in 1..Len(merged) :
                g # h => ~Overlaps(merged[g], merged[h])

\* the two cells are 4-neighbours in the grid
SharesEdge(a, b) ==
    \/ a.top = b.top /\ Abs(a.left - b.left) = GridSize
    \/ a.left = b.left /\ Abs(a.top - b.top) = GridSize

\* the returned region the input region k was absorbed into
GroupOf(k) == CHOOSE g \in 1..Len(groups) : k \in groups[g]

\* C25: two candidate cells that share an edge are absorbed into the same
\* merged region, for every list of candidate cells in row-major order.
C25_NeighboursMerged ==
    (MergerReturned /\ CellsGiven) =>
        \A k \in Indices :
            \A l \in Indices :
                (k < l /\ SharesEdge(areas[k], areas[l]))
                    => GroupOf(k) = GroupOf(l)

\* C26: every region appended to visual_elements while page p is processed
\* carries page = p, whether it was resolved from a visual element, made
\* from a block without text, or estimated from the grid gaps or from a
\* keyword.
C26_RegionsCarryTheirPage ==
    PageProcessed =>
        \A n \in 1..Len(Appended) : Appended[n].page = page_num - 1

\* C27: any two figures cropped in one run are written under different
\* filenames, so that no crop overwrites another; this holds for several
\* regions estimated from the same keyword on the same page too.
C27_FilenamesDistinct ==
    \A g \in 1..Len(extracted_figures) :
        \A h \in 1..Len(extracted_figures) :
            g # h => extracted_figures[g].filename # extracted_figures[h].filename

\* ------------------------- properties of the cropper of the paragraphs
\* extract_from_pages_blocks was called on a page with a page image
PagesBlocksCropped ==
    /\ call.routine = "extract_from_pages_blocks"
    /\ call.page_image # None

\* the pixel box of paragraph k of the call
ParagraphPixels(k) ==
    PixelsOfCoords(call.paras_coords[k].coordinates, call.page_image)

\* the result holds the crop of paragraph k
ParagraphRecorded(k) ==
    \E n \in 1..Len(call.result.extracted_figures) :
        /\ call.result.extracted_figures[n].source
               = "pages.paragraphs.layout.bounding_poly"
        /\ call.result.extracted_figures[n].figure_id
               = call.paras_coords[k].paragraph_index
        /\ call.result.extracted_figures[n].coordinates = ParagraphPixels(k)

\* C28: every paragraph whose pixel box is valid (left < right, top < bottom,
\* left >= 0, top >= 0) is cropped and recorded in the result, whatever
\* happened to the blocks of the page before it.
C28_ValidParagraphCropped ==
    PagesBlocksCropped =>
        \A k \in 1..Len(call.paras_coords) :
            (/\ ParagraphPixels(k).left < ParagraphPixels(k).right
             /\ ParagraphPixels(k).top < ParagraphPixels(k).bottom
             /\ ParagraphPixels(k).left >= 0
             /\ ParagraphPixels(k).top >= 0)
                => ParagraphRecorded(k)

\* C29: no two regions the merger returns are adjacent to each other under
\* the tolerance, and the merger applied to the list it returned returns
\* that list again.
C29_Idempotent ==
    MergerReturned =>
        /\ \A g \in 1..Len(merged) :
               \A h \in 1..Len(merged) :
                   g # h => ~Adjacent(merged[g], merged[h])
        /\ MergeAdjacentAreas(merged) = merged

\* the merger returned two regions or more, one of them a union of input
\* regions that needed more than one scan
C29_Witness ==
    /\ MergerReturned
    /\ Len(merged) >= 2
    /\ \E g \in 1..Len(merged) :
          /\ g <= Len(groups)
          /\ Cardinality(groups[g]) >= 3
          /\ \A k \in groups[g] : areas[k] # merged[g]

\* the merger is between its call and its return
InMerger == pc \in {"for_i", "while"}

\* a run of the while body that sets changed marks one more region as used
C30_PassMarks ==
    (pc = "while" /\ pc' = "while" /\ changed')
        => Cardinality(used') > Cardinality(used)

\* the while body runs at most n + 1 times for a seed
C30_PassesBounded == InMerger => passes <= Len(areas) + 1

\* what is left to do: three steps per region that is not used, and the
\* steps that end the while loop of the current seed
Variant ==
    3 * (Len(areas) - Cardinality(used))
        + (IF pc = "while" THEN (IF changed THEN 2 ELSE 1) ELSE 0)

\* every step of the merger but its return makes the variant smaller
C30_VariantDecreases ==
    (InMerger /\ InMerger') => (Variant' < Variant /\ Variant' >= 0)

\* the merger is never stuck between its call and its return: the next
\* statement of the outer loop, a run of the while body (its condition is
\* all its guard) or the return is there
C30_NextStatement ==
    InMerger => (ENABLED MergeSeed \/ ENABLED MergeEmit \/ ENABLED MergeReturn
                    \/ (pc = "while" /\ changed))

\* C30: the merger terminates on every list of n regions: a run of the
\* while body that sets changed marks at least one more region as used, the
\* body runs at most n + 1 times for a seed, and the call returns, as each
\* of its steps makes a natural number smaller and a next step is there
\* until the return.
C30_Terminates ==
    /\ [][C30_PassMarks /\ C30_VariantDecreases]_vars
    /\ [](C30_PassesBounded /\ C30_NextStatement)

\* the while loop of a seed ended after as many runs of its body as the
\* list has regions
C30_Witness ==
    /\ pc = "while"
    /\ ~changed
    /\ Len(areas) >= 3
    /\ passes = Len(areas)

====
